---------------------------- MODULE Spec2Model ----------------------------
(***************************************************************************)
(* The MuleSoft Anypoint demo MCP server (mulesoft_mcp_server_demo.py) and *)
(* its HTTP wrapper (render_server.py) as a state machine.                 *)
(*                                                                         *)
(* A Python str is a sequence of atoms.  The characters that matter to a   *)
(* JSON encoder or decoder (the quote, the backslash, the brackets, the    *)
(* colon, the comma, the space and the control characters) are one atom    *)
(* each; every maximal run of other characters is one atom (a word).  A    *)
(* Python value that json handles is a tagged tuple: JStr, JInt, JFloat,   *)
(* JBool, JNull, JList, JDict (a dict keeps its items in insertion order). *)
(***************************************************************************)
EXTENDS Integers, Sequences, FiniteSets, TLC

\* --------------------------------------------------------------------------
\* Python values
\* --------------------------------------------------------------------------
JStr(s) == <<"str", s>>
JInt(n) == <<"int", n>>
JFloat(w) == <<"float", w>>
JBool(b) == <<"bool", b>>
JNull == <<"null">>
JList(elts) == <<"list", elts>>
JDict(items) == <<"dict", items>>

\* str(n) of an int
str(n) == <<ToString(n)>>

\* --------------------------------------------------------------------------
\* json.dumps(obj, indent=2): the text the encoder writes
\* --------------------------------------------------------------------------
\* the escapes of the ASCII-only string encoder
ESCAPE_DCT(a) ==
  CASE a = "\"" -> <<"\\", "\"">>
    [] a = "\\" -> <<"\\", "\\">>
    [] a = "\n" -> <<"\\", "n">>
    [] a = "\t" -> <<"\\", "t">>
    [] OTHER -> <<a>>

RECURSIVE escape_atoms(_, _)
escape_atoms(s, i) ==
  IF i > Len(s) THEN << >> ELSE ESCAPE_DCT(s[i]) \o escape_atoms(s, i + 1)

py_encode_basestring_ascii(s) ==
  IF \A i \in 1..Len(s) : ESCAPE_DCT(s[i]) = <<s[i]>>
  THEN <<"\"">> \o s \o <<"\"">>
  ELSE <<"\"">> \o escape_atoms(s, 1) \o <<"\"">>

\* a new line and the indentation of a nesting level (nothing when indent is None)
newline_indent(fmt, level) ==
  IF fmt.indent < 0 THEN << >>
  ELSE <<"\n">> \o [i \in 1..(fmt.indent * level) |-> " "]

\* a float is written by float.__repr__; allow_nan is left at its default, so
\* the non-finite floats are written as NaN, Infinity and -Infinity
floatstr(w) == <<w>>

RECURSIVE iterencode(_, _, _)
RECURSIVE iterencode_list(_, _, _, _)
RECURSIVE iterencode_dict(_, _, _, _)

iterencode(o, fmt, level) ==
  CASE o[1] = "str" -> py_encode_basestring_ascii(o[2])
    [] o[1] = "null" -> <<"null">>
    [] o[1] = "bool" -> IF o[2] THEN <<"true">> ELSE <<"false">>
    [] o[1] = "int" -> str(o[2])
    [] o[1] = "float" -> floatstr(o[2])
    [] o[1] = "list" ->
         IF Len(o[2]) = 0 THEN <<"[", "]">>
         ELSE <<"[">> \o newline_indent(fmt, level + 1)
              \o iterencode_list(o[2], 1, fmt, level + 1)
              \o newline_indent(fmt, level) \o <<"]">>
    [] o[1] = "dict" ->
         IF Len(o[2]) = 0 THEN <<"{", "}">>
         ELSE <<"{">> \o newline_indent(fmt, level + 1)
              \o iterencode_dict(o[2], 1, fmt, level + 1)
              \o newline_indent(fmt, level) \o <<"}">>

iterencode_list(elts, k, fmt, level) ==
  iterencode(elts[k], fmt, level)
  \o (IF k = Len(elts) THEN << >>
      ELSE fmt.item_separator \o newline_indent(fmt, level)
           \o iterencode_list(elts, k + 1, fmt, level))

iterencode_dict(items, k, fmt, level) ==
  py_encode_basestring_ascii(items[k][1]) \o fmt.key_separator
  \o iterencode(items[k][2], fmt, level)
  \o (IF k = Len(items) THEN << >>
      ELSE fmt.item_separator \o newline_indent(fmt, level)
           \o iterencode_dict(items, k + 1, fmt, level))

\* json.dumps(obj, indent=indent) with an integer indent: the item separator
\* is "," and the key separator ": "
json_dumps(obj, indent) ==
  iterencode(obj, [indent |-> indent, item_separator |-> <<",">>,
                   key_separator |-> <<":", " ">>], 0)

\* --------------------------------------------------------------------------
\* json.loads(s): the value the decoder reads, or JSONDecodeError
\* --------------------------------------------------------------------------
\* the integer and float literals the decoder is exercised on
IntLiterals ==
  {-1, 0, 1, 2, 3, 4, 5, 6, 7, 12, 15, 24, 25, 33, 38, 45, 65, 83, 100, 125,
   180, 245, 330, 450, 650, 680, 1000, 1200, 1247, 1500, 1523, 1850, 2100,
   2230, 2500, 3080, 3500, 5200, 5432, 8000, 12385, 12450, 35000, 42150,
   45230, 60000}
IntWords == {ToString(n) : n \in IntLiterals}
FloatWords == {"0.1", "12.5", "15.3", "28.3"}
\* parse_constant: the literals the decoder accepts beyond RFC 8259
NonFiniteWords == {"NaN", "Infinity", "-Infinity"}
WHITESPACE == {" ", "\t", "\n", "\r"}
ControlAtoms == {"\n", "\t", "\r"}

JSONDecodeError == [ok |-> FALSE, val |-> JNull, end |-> 0]
Decoded(v, e) == [ok |-> TRUE, val |-> v, end |-> e]

\* the first index from i on whose atom is not in `chars` (Len(s) + 1 when
\* there is none): what a regular expression match over a run of `chars` ends at
RECURSIVE match_end(_, _, _)
match_end(s, i, chars) ==
  IF i > Len(s) THEN i
  ELSE LET hi == IF i + 7 < Len(s) THEN i + 7 ELSE Len(s)
           stops == {j \in i..hi : s[j] \notin chars}
       IN  IF stops = {} THEN match_end(s, hi + 1, chars)
           ELSE CHOOSE j \in stops : \A k \in stops : j <= k

\* WHITESPACE.match(s, i).end()
skip_whitespace(s, i) ==
  IF i <= Len(s) /\ s[i] \in WHITESPACE THEN match_end(s, i, WHITESPACE) ELSE i

\* the character a backslash escape stands for
BACKSLASH(a) ==
  CASE a = "\"" -> "\""
    [] a = "\\" -> "\\"
    [] a = "/" -> "/"
    [] a = "n" -> "\n"
    [] a = "t" -> "\t"
    [] a = "r" -> "\r"
    [] OTHER -> ""

\* STRINGCHUNK: the index of the next quote, backslash or control character
RECURSIVE chunk_end(_, _)
chunk_end(s, i) ==
  IF i > Len(s) THEN i
  ELSE LET hi == IF i + 7 < Len(s) THEN i + 7 ELSE Len(s)
           stops == {j \in i..hi : s[j] \in {"\"", "\\"} \cup ControlAtoms}
       IN  IF stops = {} THEN chunk_end(s, hi + 1)
           ELSE CHOOSE j \in stops : \A k \in stops : j <= k

\* py_scanstring (strict): s[i] is the atom after the opening quote
RECURSIVE py_scanstring(_, _, _)
py_scanstring(s, i, acc) ==
  LET j == chunk_end(s, i)
      chunks == acc \o SubSeq(s, i, j - 1)
  IN
  IF j > Len(s) THEN JSONDecodeError
  ELSE IF s[j] = "\"" THEN Decoded(JStr(chunks), j + 1)
  ELSE IF s[j] \in ControlAtoms THEN JSONDecodeError
  ELSE IF j + 1 > Len(s) \/ BACKSLASH(s[j + 1]) = "" THEN JSONDecodeError
  ELSE py_scanstring(s, j + 2, Append(chunks, BACKSLASH(s[j + 1])))

\* dict(pairs): a repeated key keeps its first position and takes the last value
RECURSIVE dict_setitem(_, _, _, _)
dict_setitem(items, k, key, v) ==
  IF k > Len(items) THEN Append(items, <<key, v>>)
  ELSE IF items[k][1] = key THEN [items EXCEPT ![k] = <<key, v>>]
  ELSE dict_setitem(items, k + 1, key, v)

RECURSIVE scan_once(_, _)
RECURSIVE JSONObject_pairs(_, _, _)
RECURSIVE JSONArray_values(_, _, _)

\* JSONObject: s[i] is the atom after the opening brace
JSONObject(s, i) ==
  LET j == skip_whitespace(s, i) IN
  IF j > Len(s) THEN JSONDecodeError
  ELSE IF s[j] = "}" THEN Decoded(JDict(<< >>), j + 1)
  ELSE IF s[j] # "\"" THEN JSONDecodeError
  ELSE JSONObject_pairs(s, j, << >>)

\* s[j] is the opening quote of the next key
JSONObject_pairs(s, j, acc) ==
  LET key == py_scanstring(s, j + 1, << >>) IN
  IF ~key.ok THEN JSONDecodeError
  ELSE
    LET c == skip_whitespace(s, key.end) IN
    IF c > Len(s) \/ s[c] # ":" THEN JSONDecodeError
    ELSE
      LET v == scan_once(s, skip_whitespace(s, c + 1)) IN
      IF ~v.ok THEN JSONDecodeError
      ELSE
        LET e == skip_whitespace(s, v.end)
            pairs == dict_setitem(acc, 1, key.val[2], v.val)
        IN
        IF e > Len(s) THEN JSONDecodeError
        ELSE IF s[e] = "}" THEN Decoded(JDict(pairs), e + 1)
        ELSE IF s[e] # "," THEN JSONDecodeError
        ELSE
          LET n == skip_whitespace(s, e + 1) IN
          IF n > Len(s) \/ s[n] # "\"" THEN JSONDecodeError
          ELSE JSONObject_pairs(s, n, pairs)

\* JSONArray: s[i] is the atom after the opening bracket
JSONArray(s, i) ==
  LET j == skip_whitespace(s, i) IN
  IF j > Len(s) THEN JSONDecodeError
  ELSE IF s[j] = "]" THEN Decoded(JList(<< >>), j + 1)
  ELSE JSONArray_values(s, j, << >>)

JSONArray_values(s, j, acc) ==
  LET v == scan_once(s, j) IN
  IF ~v.ok THEN JSONDecodeError
  ELSE
    LET e == skip_whitespace(s, v.end)
        values == Append(acc, v.val)
    IN
    IF e > Len(s) THEN JSONDecodeError
    ELSE IF s[e] = "]" THEN Decoded(JList(values), e + 1)
    ELSE IF s[e] # "," THEN JSONDecodeError
    ELSE JSONArray_values(s, skip_whitespace(s, e + 1), values)

scan_once(s, i) ==
  IF i > Len(s) THEN JSONDecodeError
  ELSE IF s[i] = "\"" THEN py_scanstring(s, i + 1, << >>)
  ELSE IF s[i] = "{" THEN JSONObject(s, i + 1)
  ELSE IF s[i] = "[" THEN JSONArray(s, i + 1)
  ELSE IF s[i] = "null" THEN Decoded(JNull, i + 1)
  ELSE IF s[i] = "true" THEN Decoded(JBool(TRUE), i + 1)
  ELSE IF s[i] = "false" THEN Decoded(JBool(FALSE), i + 1)
  ELSE IF s[i] \in IntWords
    THEN Decoded(JInt(CHOOSE n \in IntLiterals : ToString(n) = s[i]), i + 1)
  ELSE IF s[i] \in FloatWords THEN Decoded(JFloat(s[i]), i + 1)
  ELSE IF s[i] \in NonFiniteWords THEN Decoded(JFloat(s[i]), i + 1)
  ELSE JSONDecodeError

\* json.loads: leading whitespace, one value, trailing whitespace, the end
json_loads(s) ==
  LET r == scan_once(s, skip_whitespace(s, 1)) IN
  IF ~r.ok THEN JSONDecodeError
  ELSE IF skip_whitespace(s, r.end) <= Len(s) THEN JSONDecodeError
  ELSE r

\* --------------------------------------------------------------------------
\* State
\* --------------------------------------------------------------------------
VARIABLES
  environ,    \* os.environ["MULESOFT_MOCK_MODE"]: [set, val]
  MOCK_MODE,  \* the module-level flag of mulesoft_mcp_server_demo.py
  now,        \* the clock datetime.utcnow() reads
  call,       \* per caller: the tool call in progress or last made
  proc,       \* per caller: the child process subprocess.run started
  http,       \* the last response of the HTTP wrapper
  first,      \* the first tool call this process answered
  changed     \* the operational tools answered since, as <<tool, app_name>>

vars == <<environ, MOCK_MODE, now, call, proc, http, first, changed>>

\* --------------------------------------------------------------------------
\* The mock branch of each tool: the text the `if MOCK_MODE:` block returns
\* --------------------------------------------------------------------------
\* datetime.utcnow().isoformat(): the process clock reads `now` seconds
isoformat(t) == <<"2026-02-14T10", ":", "20", ":", IF t < 10 THEN "0" \o ToString(t) ELSE ToString(t)>>

list_applications_mock(environment) ==
  json_dumps(
    JDict(<<
      <<<<"applications">>, JList(<<
        JDict(<<
          <<<<"name">>, JStr(<<"customer-api">>)>>,
          <<<<"status">>, JStr(<<"STARTED">>)>>,
          <<<<"environment">>, JStr(environment)>>,
          <<<<"workers">>, JInt(2)>>,
          <<<<"workerType">>, JStr(<<"MICRO">>)>>,
          <<<<"region">>, JStr(<<"us-east-1">>)>>,
          <<<<"lastModified">>, JStr(<<"2026-02-10T14", ":", "30", ":", "00Z">>)>>,
          <<<<"muleVersion">>, JStr(<<"4.4.0">>)>>
        >>),
        JDict(<<
          <<<<"name">>, JStr(<<"payment-processor">>)>>,
          <<<<"status">>, JStr(<<"STARTED">>)>>,
          <<<<"environment">>, JStr(environment)>>,
          <<<<"workers">>, JInt(4)>>,
          <<<<"workerType">>, JStr(<<"SMALL">>)>>,
          <<<<"region">>, JStr(<<"us-east-1">>)>>,
          <<<<"lastModified">>, JStr(<<"2026-02-12T09", ":", "15", ":", "00Z">>)>>,
          <<<<"muleVersion">>, JStr(<<"4.4.0">>)>>
        >>),
        JDict(<<
          <<<<"name">>, JStr(<<"order-fulfillment-api">>)>>,
          <<<<"status">>, JStr(<<"FAILED">>)>>,
          <<<<"environment">>, JStr(environment)>>,
          <<<<"workers">>, JInt(2)>>,
          <<<<"workerType">>, JStr(<<"MICRO">>)>>,
          <<<<"region">>, JStr(<<"us-west-2">>)>>,
          <<<<"lastModified">>, JStr(<<"2026-02-14T08", ":", "00", ":", "00Z">>)>>,
          <<<<"muleVersion">>, JStr(<<"4.3.0">>)>>,
          <<<<"errorMessage">>, JStr(<<"Application", " ", "failed", " ", "to", " ", "start", " ", "due", " ", "to", " ", "configuration", " ", "error">>)>>
        >>),
        JDict(<<
          <<<<"name">>, JStr(<<"inventory-sync-service">>)>>,
          <<<<"status">>, JStr(<<"STARTED">>)>>,
          <<<<"environment">>, JStr(environment)>>,
          <<<<"workers">>, JInt(1)>>,
          <<<<"workerType">>, JStr(<<"MICRO">>)>>,
          <<<<"region">>, JStr(<<"us-east-1">>)>>,
          <<<<"lastModified">>, JStr(<<"2026-01-28T11", ":", "20", ":", "00Z">>)>>,
          <<<<"muleVersion">>, JStr(<<"4.4.0">>)>>
        >>),
        JDict(<<
          <<<<"name">>, JStr(<<"oauth-authentication-experience-api">>)>>,
          <<<<"status">>, JStr(<<"STARTED">>)>>,
          <<<<"environment">>, JStr(environment)>>,
          <<<<"workers">>, JInt(2)>>,
          <<<<"workerType">>, JStr(<<"SMALL">>)>>,
          <<<<"region">>, JStr(<<"us-east-1">>)>>,
          <<<<"lastModified">>, JStr(<<"2026-02-14T18", ":", "35", ":", "00Z">>)>>,
          <<<<"muleVersion">>, JStr(<<"4.4.0">>)>>,
          <<<<"statusReason">>, JStr(<<"High", " ", "error", " ", "rate", " ", "-", " ", "504", " ", "Gateway", " ", "Timeout", " ", "from", " ", "downstream", " ", "Cognito">>)>>
        >>),
        JDict(<<
          <<<<"name">>, JStr(<<"cards-sca-business-api">>)>>,
          <<<<"status">>, JStr(<<"STARTED">>)>>,
          <<<<"environment">>, JStr(environment)>>,
          <<<<"workers">>, JInt(3)>>,
          <<<<"workerType">>, JStr(<<"MICRO">>)>>,
          <<<<"region">>, JStr(<<"us-east-1">>)>>,
          <<<<"lastModified">>, JStr(<<"2026-02-10T09", ":", "00", ":", "00Z">>)>>,
          <<<<"muleVersion">>, JStr(<<"4.4.0">>)>>,
          <<<<"statusReason">>, JStr(<<"Experiencing", " ", "intermittent", " ", "failures", " ", "due", " ", "to", " ", "OAuth", " ", "token", " ", "issues">>)>>
        >>)
      >>)>>,
      <<<<"total">>, JInt(6)>>
    >>), 2)

\* a variant that compares the name without regard to letter case
describe_application_status_ignoring_case(app_name) ==
  IF app_name \in { <<"order-fulfillment-api">>, <<"Order-Fulfillment-API">> }
  THEN <<"FAILED">> ELSE <<"STARTED">>

\* a variant that also reports payment-processor as failed
describe_application_status_two_failing(app_name) ==
  IF app_name \in { <<"order-fulfillment-api">>, <<"payment-processor">> }
  THEN <<"FAILED">> ELSE <<"STARTED">>

\* the status describe_application gives an application
describe_application_status(app_name) ==
  IF app_name = <<"order-fulfillment-api">> THEN <<"FAILED">> ELSE <<"STARTED">>

describe_application_mock(app_name, environment) ==
  LET status == describe_application_status(app_name)
      error_info == IF app_name = <<"order-fulfillment-api">> THEN
    <<
      <<<<"errorMessage">>, JStr(<<"Application", " ", "failed", " ", "to", " ", "start">>)>>,
      <<<<"errorDetails">>, JStr(<<"Configuration", " ", "property", " ", "'db.host'", " ", "is", " ", "missing">>)>>,
      <<<<"lastDeployment">>, JDict(<<
        <<<<"status">>, JStr(<<"FAILED">>)>>,
        <<<<"timestamp">>, JStr(<<"2026-02-14T08", ":", "00", ":", "00Z">>)>>,
        <<<<"deployedBy">>, JStr(<<"admin@company.com">>)>>
      >>)>>
    >>
        ELSE << >>
  IN
  json_dumps(
    JDict(<<
      <<<<"application">>, JDict((<<
        <<<<"name">>, JStr(app_name)>>,
        <<<<"status">>, JStr(status)>>,
        <<<<"environment">>, JStr(environment)>>,
        <<<<"domain">>, JStr((app_name \o <<".us-e1.cloudhub.io">>))>>,
        <<<<"workers">>, JDict(<<
          <<<<"amount">>, JInt(2)>>,
          <<<<"type">>, JDict(<<
            <<<<"name">>, JStr(<<"MICRO">>)>>,
            <<<<"weight">>, JFloat("0.1")>>,
            <<<<"cpu">>, JStr(<<"0.1", " ", "vCores">>)>>,
            <<<<"memory">>, JStr(<<"500", " ", "MB">>)>>
          >>)>>
        >>)>>,
        <<<<"region">>, JStr(<<"us-east-1">>)>>,
        <<<<"muleVersion">>, JStr(<<"4.4.0">>)>>,
        <<<<"lastModified">>, JStr(<<"2026-02-14T08", ":", "00", ":", "00Z">>)>>,
        <<<<"properties">>, JDict(<<
          <<<<"http.port">>, JStr(<<"8081">>)>>,
          <<<<"anypoint.platform.client_id">>, JStr(<<"***masked***">>)>>,
          <<<<"anypoint.platform.client_secret">>, JStr(<<"***masked***">>)>>
        >>)>>,
        <<<<"runtime">>, JDict(<<
          <<<<"javaVersion">>, JStr(<<"1.8.0_345">>)>>,
          <<<<"staticIpsEnabled">>, JBool(FALSE)>>,
          <<<<"persistentQueues">>, JBool(TRUE)>>
        >>)>>
      >> \o error_info))>>
    >>), 2)

get_application_logs_mock(app_name, environment, tail_lines) ==
  LET logs ==
    IF app_name = <<"oauth-authentication-experience-api">> THEN
    JList(<<
      JStr(<<"2024-09-06T18", ":", "35", ":", "07.628Z", " ", "INFO", " ", "[", "[", "MuleRuntime", "]", ".uber.15", ":", " ", "[", "oauth-authentication-experience-api", "]", ".oauth-authentication-exp-11ef-8a7b-0ab70e1f9a09", "]", " ", "org.mule.runtime.core.internal.processor.LoggerMessageProcessor", ":", " ", "{">>),
      JStr(<<" ", " ", "\"", "Correlation", " ", "ID", "\"", ":", " ", "\"", "8feb64fb-ce26-42b9-a37c-1d0774cba23d", "\"", ",">>),
      JStr(<<" ", " ", "\"", "Transaction", " ", "ID", "\"", ":", " ", "\"", "8feb64fb-ce26-42b9-a37c-1d0774cba23d", "\"", ",">>),
      JStr(<<" ", " ", "\"", "Application", " ", "Name", "\"", ":", " ", "\"", "API", " ", "Gateway", " ", "OAuth2", " ", "Experience", " ", "API", "\"", ",">>),
      JStr(<<" ", " ", "\"", "Date", " ", "Time", " ", "Stamp", "\"", ":", " ", "\"", "2024-09-06T18", ":", "35", ":", "07.628Z", "\"", ",">>),
      JStr(<<" ", " ", "\"", "type", "\"", ":", " ", "\"", "ERROR", "\"", ",">>),
      JStr(<<" ", " ", "\"", "status_code", "\"", ":", " ", "504", ",">>),
      JStr(<<" ", " ", "\"", "action", "\"", ":", " ", "\"", "ERROR", " ", "RESPONSE", " ", "SENT", "\"", ",">>),
      JStr(<<" ", " ", "\"", "Headers", "\"", ":", " ", "{">>),
      JStr(<<" ", " ", " ", " ", "\"", "x-api-transaction-id", "\"", ":", " ", "\"", "ca1b58b2-c34f-4af2-9bf2-fe247f13c56e", "\"", ",">>),
      JStr(<<" ", " ", " ", " ", "\"", "x-api-correlation-id", "\"", ":", " ", "\"", "5bcfadd8-919a-4d76-8b43-44ddbaa061e9", "\"", ",">>),
      JStr(<<" ", " ", " ", " ", "\"", "x-ratelimit-remaining", "\"", ":", " ", "\"", "24", "\"", ",">>),
      JStr(<<" ", " ", " ", " ", "\"", "x-ratelimit-limit", "\"", ":", " ", "\"", "25", "\"", ",">>),
      JStr(<<" ", " ", " ", " ", "\"", "x-ratelimit-reset", "\"", ":", " ", "\"", "857", "\"">>),
      JStr(<<" ", " ", "}">>),
      JStr(<<"}">>),
      JStr(<<"2024-09-06T18", ":", "35", ":", "08.145Z", " ", "ERROR", " ", "Cognito", " ", "System", " ", "API", " ", "returned", " ", "timeout", " ", "after", " ", "5000ms">>),
      JStr(<<"2024-09-06T18", ":", "35", ":", "08.146Z", " ", "WARN", " ", "Rate", " ", "limit", " ", "approaching", " ", "-", " ", "24", " ", "of", " ", "25", " ", "requests", " ", "remaining">>),
      JStr(<<"2024-09-06T18", ":", "36", ":", "12.334Z", " ", "ERROR", " ", "[", "[", "MuleRuntime", "]", ".uber.15", "]", " ", "Gateway", " ", "timeout", " ", "-", " ", "Unable", " ", "to", " ", "obtain", " ", "access", " ", "token", " ", "from", " ", "Cognito">>),
      JStr(<<"2024-09-06T18", ":", "36", ":", "12.335Z", " ", "ERROR", " ", "Cards", " ", "SCA", " ", "authentication", " ", "flow", " ", "failed", " ", "-", " ", "access", " ", "token", " ", "generation", " ", "timeout">>),
      JStr(<<"2024-09-06T18", ":", "37", ":", "45.221Z", " ", "INFO", " ", "Retry", " ", "attempt", " ", "1/3", " ", "for", " ", "access", " ", "token", " ", "generation">>),
      JStr(<<"2024-09-06T18", ":", "37", ":", "50.445Z", " ", "ERROR", " ", "Retry", " ", "failed", " ", "-", " ", "Cognito", " ", "System", " ", "API", " ", "still", " ", "timing", " ", "out">>)
    >>)
    ELSE IF app_name = <<"cards-sca-business-api">> THEN
    JList(<<
      JStr(<<"2024-09-06T18", ":", "34", ":", "00.123Z", " ", "INFO", " ", "Processing", " ", "Cards", " ", "SCA", " ", "eCommerce", " ", "transaction", " ", "request">>),
      JStr(<<"2024-09-06T18", ":", "34", ":", "00.450Z", " ", "INFO", " ", "Calling", " ", "OAuth", " ", "authentication", " ", "experience", " ", "API", " ", "for", " ", "token">>),
      JStr(<<"2024-09-06T18", ":", "34", ":", "05.678Z", " ", "ERROR", " ", "OAuth", " ", "API", " ", "returned", " ", "504", " ", "-", " ", "Gateway", " ", "Timeout">>),
      JStr(<<"2024-09-06T18", ":", "34", ":", "05.679Z", " ", "ERROR", " ", "Unable", " ", "to", " ", "authenticate", " ", "user", " ", "-", " ", "access", " ", "token", " ", "unavailable">>),
      JStr(<<"2024-09-06T18", ":", "34", ":", "05.680Z", " ", "WARN", " ", "Transaction", " ", "failed", " ", "-", " ", "returning", " ", "error", " ", "to", " ", "customer">>),
      JStr(<<"2024-09-06T18", ":", "35", ":", "30.123Z", " ", "INFO", " ", "Retry", " ", "transaction", " ", "attempt">>),
      JStr(<<"2024-09-06T18", ":", "35", ":", "35.890Z", " ", "ERROR", " ", "OAuth", " ", "API", " ", "still", " ", "failing", " ", "-", " ", "504", " ", "Gateway", " ", "Timeout">>),
      JStr(<<"2024-09-06T18", ":", "36", ":", "00.234Z", " ", "WARN", " ", "Failure", " ", "rate", " ", "increased", " ", "to", " ", "12%", " ", "in", " ", "last", " ", "30", " ", "minutes">>),
      JStr(<<"2024-09-06T18", ":", "36", ":", "00.235Z", " ", "ERROR", " ", "Customer", " ", "impact", ":", " ", "Unable", " ", "to", " ", "process", " ", "debit", " ", "card", " ", "transaction">>),
      JStr(<<"2024-09-06T18", ":", "36", ":", "00.236Z", " ", "ERROR", " ", "Customer", " ", "impact", ":", " ", "Unable", " ", "to", " ", "process", " ", "credit", " ", "card", " ", "transaction">>)
    >>)
    ELSE IF app_name = <<"order-fulfillment-api">> THEN
    JList(<<
      JStr(<<"2026-02-14", " ", "08", ":", "00", ":", "15", " ", "ERROR", " ", "[", "main", "]", " ", "org.mule.runtime.core.internal.context.DefaultMuleContext", ":", " ", "Error", " ", "starting", " ", "application">>),
      JStr(<<"2026-02-14", " ", "08", ":", "00", ":", "15", " ", "ERROR", " ", "[", "main", "]", " ", "org.mule.runtime.module.deployment.impl.DefaultApplicationDeployer", ":", " ", "Failed", " ", "to", " ", "deploy", " ", "application">>),
      JStr(<<"2026-02-14", " ", "08", ":", "00", ":", "15", " ", "ERROR", " ", "[", "main", "]", " ", "Configuration", " ", "property", " ", "'db.host'", " ", "is", " ", "required", " ", "but", " ", "not", " ", "set">>),
      JStr(<<"2026-02-14", " ", "08", ":", "00", ":", "15", " ", "FATAL", " ", "[", "main", "]", " ", "Application", " ", "startup", " ", "failed">>),
      JStr(<<"2026-02-14", " ", "08", ":", "00", ":", "16", " ", "INFO", " ", " ", "[", "main", "]", " ", "org.mule.runtime.module.deployment.impl.DefaultApplicationDeployer", ":", " ", "Application", " ", "deployment", " ", "failed", ":", " ", "order-fulfillment-api">>)
    >>)
    ELSE IF app_name = <<"payment-processor">> THEN
    JList(<<
      JStr(<<"2026-02-14", " ", "10", ":", "15", ":", "23", " ", "INFO", " ", " ", "[", "http-listener-1", "]", " ", "Received", " ", "payment", " ", "request", " ", "ID", ":", " ", "pay-12345">>),
      JStr(<<"2026-02-14", " ", "10", ":", "15", ":", "24", " ", "WARN", " ", " ", "[", "http-listener-1", "]", " ", "Payment", " ", "gateway", " ", "response", " ", "time", ":", " ", "2500ms", " ", "(threshold", ":", " ", "2000ms)">>),
      JStr(<<"2026-02-14", " ", "10", ":", "15", ":", "24", " ", "INFO", " ", " ", "[", "http-listener-1", "]", " ", "Payment", " ", "processed", " ", "successfully", ":", " ", "pay-12345">>),
      JStr(<<"2026-02-14", " ", "10", ":", "16", ":", "05", " ", "ERROR", " ", "[", "http-listener-2", "]", " ", "Payment", " ", "gateway", " ", "timeout", " ", "after", " ", "5000ms">>),
      JStr(<<"2026-02-14", " ", "10", ":", "16", ":", "05", " ", "ERROR", " ", "[", "http-listener-2", "]", " ", "Retrying", " ", "payment", " ", "request", ":", " ", "pay-12346">>),
      JStr(<<"2026-02-14", " ", "10", ":", "16", ":", "08", " ", "INFO", " ", " ", "[", "http-listener-2", "]", " ", "Payment", " ", "retry", " ", "successful", ":", " ", "pay-12346">>),
      JStr(<<"2026-02-14", " ", "10", ":", "17", ":", "12", " ", "WARN", " ", " ", "[", "scheduler-1", "]", " ", "Database", " ", "connection", " ", "pool", ":", " ", "8/10", " ", "connections", " ", "in", " ", "use">>)
    >>)
    ELSE
    JList(<<
      JStr(<<"2026-02-14", " ", "10", ":", "20", ":", "00", " ", "INFO", " ", " ", "[", "http-listener-1", "]", " ", "Processing", " ", "request">>),
      JStr(<<"2026-02-14", " ", "10", ":", "20", ":", "01", " ", "INFO", " ", " ", "[", "http-listener-1", "]", " ", "Request", " ", "completed", " ", "successfully">>),
      JStr(<<"2026-02-14", " ", "10", ":", "21", ":", "15", " ", "INFO", " ", " ", "[", "scheduler-1", "]", " ", "Scheduled", " ", "task", " ", "executed">>)
    >>)
  IN
  json_dumps(
    JDict(<<
      <<<<"applicationName">>, JStr(app_name)>>,
      <<<<"environment">>, JStr(environment)>>,
      <<<<"logLines">>, logs>>,
      <<<<"timestamp">>, JStr((isoformat(now) \o <<"Z">>))>>
    >>), 2)

list_apis_mock(environment) ==
  json_dumps(
    JDict(<<
      <<<<"apis">>, JList(<<
        JDict(<<
          <<<<"id">>, JStr(<<"12345">>)>>,
          <<<<"name">>, JStr(<<"Customer", " ", "API">>)>>,
          <<<<"version">>, JStr(<<"v1">>)>>,
          <<<<"status">>, JStr(<<"ACTIVE">>)>>,
          <<<<"endpoint">>, JStr(<<"https", ":", "//customer-api.us-e1.cloudhub.io/api/v1">>)>>,
          <<<<"instanceLabel">>, JStr(<<"customer-api-prod">>)>>,
          <<<<"assetVersion">>, JStr(<<"1.0.5">>)>>,
          <<<<"environment">>, JStr(environment)>>
        >>),
        JDict(<<
          <<<<"id">>, JStr(<<"12346">>)>>,
          <<<<"name">>, JStr(<<"Payment", " ", "API">>)>>,
          <<<<"version">>, JStr(<<"v2">>)>>,
          <<<<"status">>, JStr(<<"ACTIVE">>)>>,
          <<<<"endpoint">>, JStr(<<"https", ":", "//payment-processor.us-e1.cloudhub.io/api/v2">>)>>,
          <<<<"instanceLabel">>, JStr(<<"payment-api-prod">>)>>,
          <<<<"assetVersion">>, JStr(<<"2.1.3">>)>>,
          <<<<"environment">>, JStr(environment)>>
        >>),
        JDict(<<
          <<<<"id">>, JStr(<<"12347">>)>>,
          <<<<"name">>, JStr(<<"Order", " ", "API">>)>>,
          <<<<"version">>, JStr(<<"v1">>)>>,
          <<<<"status">>, JStr(<<"INACTIVE">>)>>,
          <<<<"endpoint">>, JStr(<<"https", ":", "//order-fulfillment-api.us-w2.cloudhub.io/api/v1">>)>>,
          <<<<"instanceLabel">>, JStr(<<"order-api-prod">>)>>,
          <<<<"assetVersion">>, JStr(<<"1.2.0">>)>>,
          <<<<"environment">>, JStr(environment)>>
        >>)
      >>)>>
    >>), 2)

\* a variant whose third endpoint reports 2100 requests
get_api_analytics_mock_fewer_requests(api_id, period, environment) ==
  IF api_id = <<"12346">> THEN
  json_dumps(
    JDict(<<
      <<<<"apiId">>, JStr(api_id)>>,
      <<<<"period">>, JStr(period)>>,
      <<<<"metrics">>, JDict(<<
        <<<<"requests">>, JDict(<<
          <<<<"total">>, JInt(45230)>>,
          <<<<"successful">>, JInt(42150)>>,
          <<<<"failed">>, JInt(3080)>>,
          <<<<"failureRate">>, JStr(<<"6.8%">>)>>
        >>)>>,
        <<<<"responseTime">>, JDict(<<
          <<<<"average">>, JInt(1850)>>,
          <<<<"p50">>, JInt(1200)>>,
          <<<<"p95">>, JInt(3500)>>,
          <<<<"p99">>, JInt(5200)>>,
          <<<<"unit">>, JStr(<<"ms">>)>>
        >>)>>,
        <<<<"errors">>, JDict(<<
          <<<<"timeout">>, JInt(2100)>>,
          <<<<"serverError">>, JInt(650)>>,
          <<<<"clientError">>, JInt(330)>>
        >>)>>,
        <<<<"policies">>, JDict(<<
          <<<<"rateLimitViolations">>, JInt(125)>>,
          <<<<"authenticationFailures">>, JInt(45)>>
        >>)>>,
        <<<<"topEndpoints">>, JList(<<
          JDict(<<
            <<<<"path">>, JStr(<<"/api/v2/payments/process">>)>>,
            <<<<"requests">>, JInt(35000)>>,
            <<<<"avgResponseTime">>, JInt(2100)>>
          >>),
          JDict(<<
            <<<<"path">>, JStr(<<"/api/v2/payments/validate">>)>>,
            <<<<"requests">>, JInt(8000)>>,
            <<<<"avgResponseTime">>, JInt(450)>>
          >>),
          JDict(<<
            <<<<"path">>, JStr(<<"/api/v2/payments/status">>)>>,
            <<<<"requests">>, JInt(2100)>>,
            <<<<"avgResponseTime">>, JInt(180)>>
          >>)
        >>)>>
      >>)>>,
      <<<<"alerts">>, JList(<<
        JDict(<<
          <<<<"severity">>, JStr(<<"HIGH">>)>>,
          <<<<"type">>, JStr(<<"RESPONSE_TIME_THRESHOLD">>)>>,
          <<<<"message">>, JStr(<<"Average", " ", "response", " ", "time", " ", "exceeded", " ", "1500ms", " ", "threshold">>)>>,
          <<<<"triggeredAt">>, JStr(<<"2026-02-14T09", ":", "30", ":", "00Z">>)>>
        >>),
        JDict(<<
          <<<<"severity">>, JStr(<<"MEDIUM">>)>>,
          <<<<"type">>, JStr(<<"ERROR_RATE_THRESHOLD">>)>>,
          <<<<"message">>, JStr(<<"Error", " ", "rate", " ", "exceeded", " ", "5%", " ", "threshold">>)>>,
          <<<<"triggeredAt">>, JStr(<<"2026-02-14T10", ":", "15", ":", "00Z">>)>>
        >>)
      >>)>>
    >>), 2)
  ELSE
  json_dumps(
    JDict(<<
      <<<<"apiId">>, JStr(api_id)>>,
      <<<<"period">>, JStr(period)>>,
      <<<<"metrics">>, JDict(<<
        <<<<"requests">>, JDict(<<
          <<<<"total">>, JInt(12450)>>,
          <<<<"successful">>, JInt(12385)>>,
          <<<<"failed">>, JInt(65)>>,
          <<<<"failureRate">>, JStr(<<"0.5%">>)>>
        >>)>>,
        <<<<"responseTime">>, JDict(<<
          <<<<"average">>, JInt(245)>>,
          <<<<"p50">>, JInt(180)>>,
          <<<<"p95">>, JInt(450)>>,
          <<<<"p99">>, JInt(680)>>,
          <<<<"unit">>, JStr(<<"ms">>)>>
        >>)>>,
        <<<<"errors">>, JDict(<<
          <<<<"timeout">>, JInt(15)>>,
          <<<<"serverError">>, JInt(25)>>,
          <<<<"clientError">>, JInt(25)>>
        >>)>>
      >>)>>
    >>), 2)

get_api_analytics_mock(api_id, period, environment) ==
  IF api_id = <<"12346">> THEN
  json_dumps(
    JDict(<<
      <<<<"apiId">>, JStr(api_id)>>,
      <<<<"period">>, JStr(period)>>,
      <<<<"metrics">>, JDict(<<
        <<<<"requests">>, JDict(<<
          <<<<"total">>, JInt(45230)>>,
          <<<<"successful">>, JInt(42150)>>,
          <<<<"failed">>, JInt(3080)>>,
          <<<<"failureRate">>, JStr(<<"6.8%">>)>>
        >>)>>,
        <<<<"responseTime">>, JDict(<<
          <<<<"average">>, JInt(1850)>>,
          <<<<"p50">>, JInt(1200)>>,
          <<<<"p95">>, JInt(3500)>>,
          <<<<"p99">>, JInt(5200)>>,
          <<<<"unit">>, JStr(<<"ms">>)>>
        >>)>>,
        <<<<"errors">>, JDict(<<
          <<<<"timeout">>, JInt(2100)>>,
          <<<<"serverError">>, JInt(650)>>,
          <<<<"clientError">>, JInt(330)>>
        >>)>>,
        <<<<"policies">>, JDict(<<
          <<<<"rateLimitViolations">>, JInt(125)>>,
          <<<<"authenticationFailures">>, JInt(45)>>
        >>)>>,
        <<<<"topEndpoints">>, JList(<<
          JDict(<<
            <<<<"path">>, JStr(<<"/api/v2/payments/process">>)>>,
            <<<<"requests">>, JInt(35000)>>,
            <<<<"avgResponseTime">>, JInt(2100)>>
          >>),
          JDict(<<
            <<<<"path">>, JStr(<<"/api/v2/payments/validate">>)>>,
            <<<<"requests">>, JInt(8000)>>,
            <<<<"avgResponseTime">>, JInt(450)>>
          >>),
          JDict(<<
            <<<<"path">>, JStr(<<"/api/v2/payments/status">>)>>,
            <<<<"requests">>, JInt(2230)>>,
            <<<<"avgResponseTime">>, JInt(180)>>
          >>)
        >>)>>
      >>)>>,
      <<<<"alerts">>, JList(<<
        JDict(<<
          <<<<"severity">>, JStr(<<"HIGH">>)>>,
          <<<<"type">>, JStr(<<"RESPONSE_TIME_THRESHOLD">>)>>,
          <<<<"message">>, JStr(<<"Average", " ", "response", " ", "time", " ", "exceeded", " ", "1500ms", " ", "threshold">>)>>,
          <<<<"triggeredAt">>, JStr(<<"2026-02-14T09", ":", "30", ":", "00Z">>)>>
        >>),
        JDict(<<
          <<<<"severity">>, JStr(<<"MEDIUM">>)>>,
          <<<<"type">>, JStr(<<"ERROR_RATE_THRESHOLD">>)>>,
          <<<<"message">>, JStr(<<"Error", " ", "rate", " ", "exceeded", " ", "5%", " ", "threshold">>)>>,
          <<<<"triggeredAt">>, JStr(<<"2026-02-14T10", ":", "15", ":", "00Z">>)>>
        >>)
      >>)>>
    >>), 2)
  ELSE
  json_dumps(
    JDict(<<
      <<<<"apiId">>, JStr(api_id)>>,
      <<<<"period">>, JStr(period)>>,
      <<<<"metrics">>, JDict(<<
        <<<<"requests">>, JDict(<<
          <<<<"total">>, JInt(12450)>>,
          <<<<"successful">>, JInt(12385)>>,
          <<<<"failed">>, JInt(65)>>,
          <<<<"failureRate">>, JStr(<<"0.5%">>)>>
        >>)>>,
        <<<<"responseTime">>, JDict(<<
          <<<<"average">>, JInt(245)>>,
          <<<<"p50">>, JInt(180)>>,
          <<<<"p95">>, JInt(450)>>,
          <<<<"p99">>, JInt(680)>>,
          <<<<"unit">>, JStr(<<"ms">>)>>
        >>)>>,
        <<<<"errors">>, JDict(<<
          <<<<"timeout">>, JInt(15)>>,
          <<<<"serverError">>, JInt(25)>>,
          <<<<"clientError">>, JInt(25)>>
        >>)>>
      >>)>>
    >>), 2)

list_api_policies_mock(api_id, environment) ==
  json_dumps(
    JDict(<<
      <<<<"apiId">>, JStr(api_id)>>,
      <<<<"policies">>, JList(<<
        JDict(<<
          <<<<"policyId">>, JStr(<<"rate-limiting-1">>)>>,
          <<<<"name">>, JStr(<<"Rate", " ", "Limiting">>)>>,
          <<<<"enabled">>, JBool(TRUE)>>,
          <<<<"configuration">>, JDict(<<
            <<<<"rateLimits">>, JList(<<
              JDict(<<
                <<<<"timePeriodInMilliseconds">>, JInt(60000)>>,
                <<<<"maximumRequests">>, JInt(1000)>>
              >>)
            >>)>>
          >>)>>,
          <<<<"order">>, JInt(1)>>
        >>),
        JDict(<<
          <<<<"policyId">>, JStr(<<"client-id-enforcement-1">>)>>,
          <<<<"name">>, JStr(<<"Client", " ", "ID", " ", "Enforcement">>)>>,
          <<<<"enabled">>, JBool(TRUE)>>,
          <<<<"configuration">>, JDict(<<
            <<<<"credentialsOriginHasHttpBasicAuthenticationHeader">>, JStr(<<"customExpression">>)>>
          >>)>>,
          <<<<"order">>, JInt(2)>>
        >>),
        JDict(<<
          <<<<"policyId">>, JStr(<<"spike-control-1">>)>>,
          <<<<"name">>, JStr(<<"Spike", " ", "Control">>)>>,
          <<<<"enabled">>, JBool(TRUE)>>,
          <<<<"configuration">>, JDict(<<
            <<<<"maximumRequests">>, JInt(100)>>,
            <<<<"timePeriodInMilliseconds">>, JInt(1000)>>
          >>)>>,
          <<<<"order">>, JInt(3)>>
        >>)
      >>)>>
    >>), 2)

get_application_health_mock(app_name, environment) ==
  IF app_name = <<"payment-processor">> THEN
  json_dumps(
    JDict(<<
      <<<<"applicationName">>, JStr(app_name)>>,
      <<<<"environment">>, JStr(environment)>>,
      <<<<"overallHealth">>, JStr(<<"DEGRADED">>)>>,
      <<<<"timestamp">>, JStr((isoformat(now) \o <<"Z">>))>>,
      <<<<"checks">>, JDict(<<
        <<<<"applicationStatus">>, JDict(<<
          <<<<"status">>, JStr(<<"HEALTHY">>)>>,
          <<<<"message">>, JStr(<<"Application", " ", "is", " ", "running">>)>>
        >>)>>,
        <<<<"workerHealth">>, JDict(<<
          <<<<"status">>, JStr(<<"HEALTHY">>)>>,
          <<<<"workers">>, JList(<<
            JDict(<<
              <<<<"id">>, JStr(<<"worker-0">>)>>,
              <<<<"status">>, JStr(<<"STARTED">>)>>,
              <<<<"cpu">>, JStr(<<"45%">>)>>,
              <<<<"memory">>, JStr(<<"68%">>)>>
            >>),
            JDict(<<
              <<<<"id">>, JStr(<<"worker-1">>)>>,
              <<<<"status">>, JStr(<<"STARTED">>)>>,
              <<<<"cpu">>, JStr(<<"52%">>)>>,
              <<<<"memory">>, JStr(<<"71%">>)>>
            >>)
          >>)>>
        >>)>>,
        <<<<"responseTime">>, JDict(<<
          <<<<"status">>, JStr(<<"DEGRADED">>)>>,
          <<<<"averageMs">>, JInt(2100)>>,
          <<<<"threshold">>, JInt(1500)>>,
          <<<<"message">>, JStr(<<"Response", " ", "time", " ", "exceeds", " ", "acceptable", " ", "threshold">>)>>
        >>)>>,
        <<<<"errorRate">>, JDict(<<
          <<<<"status">>, JStr(<<"DEGRADED">>)>>,
          <<<<"rate">>, JStr(<<"6.8%">>)>>,
          <<<<"threshold">>, JStr(<<"5%">>)>>,
          <<<<"message">>, JStr(<<"Error", " ", "rate", " ", "above", " ", "acceptable", " ", "threshold">>)>>
        >>)>>,
        <<<<"connectivity">>, JDict(<<
          <<<<"status">>, JStr(<<"DEGRADED">>)>>,
          <<<<"checks">>, JList(<<
            JDict(<<
              <<<<"name">>, JStr(<<"Payment", " ", "Gateway">>)>>,
              <<<<"status">>, JStr(<<"DEGRADED">>)>>,
              <<<<"latency">>, JInt(2500)>>,
              <<<<"message">>, JStr(<<"High", " ", "latency", " ", "detected">>)>>
            >>),
            JDict(<<
              <<<<"name">>, JStr(<<"Database">>)>>,
              <<<<"status">>, JStr(<<"HEALTHY">>)>>,
              <<<<"latency">>, JInt(45)>>
            >>)
          >>)>>
        >>)>>
      >>)>>,
      <<<<"recommendations">>, JList(<<
        JStr(<<"Investigate", " ", "payment", " ", "gateway", " ", "latency", " ", "issues">>),
        JStr(<<"Review", " ", "error", " ", "logs", " ", "for", " ", "timeout", " ", "patterns">>),
        JStr(<<"Consider", " ", "scaling", " ", "workers", " ", "if", " ", "load", " ", "continues">>)
      >>)>>
    >>), 2)
  ELSE IF app_name = <<"order-fulfillment-api">> THEN
  json_dumps(
    JDict(<<
      <<<<"applicationName">>, JStr(app_name)>>,
      <<<<"environment">>, JStr(environment)>>,
      <<<<"overallHealth">>, JStr(<<"CRITICAL">>)>>,
      <<<<"timestamp">>, JStr((isoformat(now) \o <<"Z">>))>>,
      <<<<"checks">>, JDict(<<
        <<<<"applicationStatus">>, JDict(<<
          <<<<"status">>, JStr(<<"FAILED">>)>>,
          <<<<"message">>, JStr(<<"Application", " ", "failed", " ", "to", " ", "start">>)>>,
          <<<<"error">>, JStr(<<"Configuration", " ", "property", " ", "'db.host'", " ", "is", " ", "missing">>)>>
        >>)>>,
        <<<<"workerHealth">>, JDict(<<
          <<<<"status">>, JStr(<<"FAILED">>)>>,
          <<<<"workers">>, JList(<< >>)>>
        >>)>>
      >>)>>,
      <<<<"recommendations">>, JList(<<
        JStr(<<"Add", " ", "missing", " ", "configuration", " ", "property", " ", "'db.host'">>),
        JStr(<<"Redeploy", " ", "application", " ", "after", " ", "fixing", " ", "configuration">>)
      >>)>>
    >>), 2)
  ELSE
  json_dumps(
    JDict(<<
      <<<<"applicationName">>, JStr(app_name)>>,
      <<<<"environment">>, JStr(environment)>>,
      <<<<"overallHealth">>, JStr(<<"HEALTHY">>)>>,
      <<<<"timestamp">>, JStr((isoformat(now) \o <<"Z">>))>>,
      <<<<"checks">>, JDict(<<
        <<<<"applicationStatus">>, JDict(<<
          <<<<"status">>, JStr(<<"HEALTHY">>)>>
        >>)>>,
        <<<<"workerHealth">>, JDict(<<
          <<<<"status">>, JStr(<<"HEALTHY">>)>>
        >>)>>,
        <<<<"responseTime">>, JDict(<<
          <<<<"status">>, JStr(<<"HEALTHY">>)>>,
          <<<<"averageMs">>, JInt(245)>>
        >>)>>,
        <<<<"errorRate">>, JDict(<<
          <<<<"status">>, JStr(<<"HEALTHY">>)>>,
          <<<<"rate">>, JStr(<<"0.5%">>)>>
        >>)>>
      >>)>>
    >>), 2)

get_worker_diagnostics_mock(app_name, worker_id, environment) ==
  json_dumps(
    JDict(<<
      <<<<"applicationName">>, JStr(app_name)>>,
      <<<<"workerId">>, JStr(worker_id)>>,
      <<<<"environment">>, JStr(environment)>>,
      <<<<"diagnostics">>, JDict(<<
        <<<<"status">>, JStr(<<"STARTED">>)>>,
        <<<<"uptime">>, JStr(<<"3d", " ", "14h", " ", "23m">>)>>,
        <<<<"resources">>, JDict(<<
          <<<<"cpu">>, JDict(<<
            <<<<"current">>, JStr(<<"52%">>)>>,
            <<<<"average1m">>, JStr(<<"48%">>)>>,
            <<<<"average5m">>, JStr(<<"45%">>)>>,
            <<<<"average15m">>, JStr(<<"43%">>)>>
          >>)>>,
          <<<<"memory">>, JDict(<<
            <<<<"used">>, JStr(<<"356", " ", "MB">>)>>,
            <<<<"total">>, JStr(<<"500", " ", "MB">>)>>,
            <<<<"percentage">>, JStr(<<"71%">>)>>,
            <<<<"heapUsed">>, JStr(<<"280", " ", "MB">>)>>,
            <<<<"heapMax">>, JStr(<<"400", " ", "MB">>)>>
          >>)>>,
          <<<<"threads">>, JDict(<<
            <<<<"total">>, JInt(45)>>,
            <<<<"active">>, JInt(12)>>,
            <<<<"waiting">>, JInt(33)>>
          >>)>>
        >>)>>,
        <<<<"jvm">>, JDict(<<
          <<<<"version">>, JStr(<<"1.8.0_345">>)>>,
          <<<<"vendor">>, JStr(<<"Oracle", " ", "Corporation">>)>>,
          <<<<"gcCount">>, JInt(1523)>>,
          <<<<"gcTime">>, JStr(<<"12.5s">>)>>
        >>)>>,
        <<<<"networking">>, JDict(<<
          <<<<"activeConnections">>, JInt(24)>>,
          <<<<"requestsPerSecond">>, JFloat("15.3")>>,
          <<<<"bytesIn">>, JStr(<<"1.2", " ", "GB">>)>>,
          <<<<"bytesOut">>, JStr(<<"2.8", " ", "GB">>)>>
        >>)>>,
        <<<<"issues">>, JList(<<
          JDict(<<
            <<<<"severity">>, JStr(<<"MEDIUM">>)>>,
            <<<<"type">>, JStr(<<"HIGH_MEMORY_USAGE">>)>>,
            <<<<"message">>, JStr(<<"Memory", " ", "usage", " ", "at", " ", "71%", " ", "-", " ", "approaching", " ", "threshold">>)>>,
            <<<<"recommendation">>, JStr(<<"Monitor", " ", "memory", " ", "usage", " ", "and", " ", "consider", " ", "increasing", " ", "worker", " ", "size", " ", "if", " ", "sustained">>)>>
          >>)
        >>)>>
      >>)>>
    >>), 2)

restart_application_mock(app_name, environment) ==
  json_dumps(
    JDict(<<
      <<<<"status">>, JStr(<<"RESTARTING">>)>>,
      <<<<"applicationName">>, JStr(app_name)>>,
      <<<<"environment">>, JStr(environment)>>,
      <<<<"message">>, JStr((<<"Restart", " ", "initiated", " ", "for", " ", "application", " ">> \o app_name))>>,
      <<<<"estimatedTime">>, JStr(<<"2-3", " ", "minutes">>)>>,
      <<<<"timestamp">>, JStr((isoformat(now) \o <<"Z">>))>>
    >>), 2)

\* a variant that rejects a worker count below one
deploy_application_mock_validating(app_name, artifact_path, environment, workers, worker_type) ==
  IF workers < 1
  THEN json_dumps(
         JDict(<<
           <<<<"error">>, JStr(<<"workers", " ", "must", " ", "be", " ", "positive">>)>>
         >>), 2)
  ELSE json_dumps(
         JDict(<<
           <<<<"status">>, JStr(<<"DEPLOYING">>)>>,
           <<<<"applicationName">>, JStr(app_name)>>,
           <<<<"environment">>, JStr(environment)>>,
           <<<<"workers">>, JInt(workers)>>,
           <<<<"workerType">>, JStr(worker_type)>>,
           <<<<"message">>, JStr((<<"Deployment", " ", "initiated", " ", "for", " ">> \o app_name))>>,
           <<<<"estimatedTime">>, JStr(<<"3-5", " ", "minutes">>)>>,
           <<<<"timestamp">>, JStr((isoformat(now) \o <<"Z">>))>>
         >>), 2)

deploy_application_mock(app_name, artifact_path, environment, workers, worker_type) ==
  json_dumps(
    JDict(<<
      <<<<"status">>, JStr(<<"DEPLOYING">>)>>,
      <<<<"applicationName">>, JStr(app_name)>>,
      <<<<"environment">>, JStr(environment)>>,
      <<<<"workers">>, JInt(workers)>>,
      <<<<"workerType">>, JStr(worker_type)>>,
      <<<<"message">>, JStr((<<"Deployment", " ", "initiated", " ", "for", " ">> \o app_name))>>,
      <<<<"estimatedTime">>, JStr(<<"3-5", " ", "minutes">>)>>,
      <<<<"timestamp">>, JStr((isoformat(now) \o <<"Z">>))>>
    >>), 2)

\* a variant that echoes the properties text instead of the parsed value
update_application_properties_mock_echoing_text(app_name, properties, environment) ==
  LET decoded == json_loads(properties) IN
  IF decoded.ok THEN
  json_dumps(
    JDict(<<
      <<<<"status">>, JStr(<<"UPDATING">>)>>,
      <<<<"applicationName">>, JStr(app_name)>>,
      <<<<"environment">>, JStr(environment)>>,
      <<<<"updatedProperties">>, JStr(properties)>>,
      <<<<"message">>, JStr(<<"Configuration", " ", "update", " ", "initiated", " ", "-", " ", "application", " ", "will", " ", "restart">>)>>,
      <<<<"timestamp">>, JStr((isoformat(now) \o <<"Z">>))>>
    >>), 2)
  ELSE
  json_dumps(
    JDict(<<
      <<<<"error">>, JStr(<<"Invalid", " ", "JSON", " ", "format", " ", "for", " ", "properties">>)>>
    >>), 2)

update_application_properties_mock(app_name, properties, environment) ==
  LET decoded == json_loads(properties) IN
  IF decoded.ok THEN
    LET props_dict == decoded.val IN
  json_dumps(
    JDict(<<
      <<<<"status">>, JStr(<<"UPDATING">>)>>,
      <<<<"applicationName">>, JStr(app_name)>>,
      <<<<"environment">>, JStr(environment)>>,
      <<<<"updatedProperties">>, props_dict>>,
      <<<<"message">>, JStr(<<"Configuration", " ", "update", " ", "initiated", " ", "-", " ", "application", " ", "will", " ", "restart">>)>>,
      <<<<"timestamp">>, JStr((isoformat(now) \o <<"Z">>))>>
    >>), 2)
  ELSE
  json_dumps(
    JDict(<<
      <<<<"error">>, JStr(<<"Invalid", " ", "JSON", " ", "format", " ", "for", " ", "properties">>)>>
    >>), 2)

\* a variant that reports the workers of an earlier scale_application call
scale_application_mock_remembering(app_name, workers, environment) ==
  json_dumps(
    JDict(<<
      <<<<"status">>, JStr(<<"SCALING">>)>>,
      <<<<"applicationName">>, JStr(app_name)>>,
      <<<<"environment">>, JStr(environment)>>,
      <<<<"currentWorkers">>, JInt(IF "scale_application" \in changed THEN workers ELSE 2)>>,
      <<<<"targetWorkers">>, JInt(workers)>>,
      <<<<"message">>, JStr((<<"Scaling", " ", "application", " ", "to", " ">> \o str(workers) \o <<" ", "workers">>))>>,
      <<<<"estimatedTime">>, JStr(<<"2-4", " ", "minutes">>)>>,
      <<<<"timestamp">>, JStr((isoformat(now) \o <<"Z">>))>>
    >>), 2)

scale_application_mock(app_name, workers, environment) ==
  json_dumps(
    JDict(<<
      <<<<"status">>, JStr(<<"SCALING">>)>>,
      <<<<"applicationName">>, JStr(app_name)>>,
      <<<<"environment">>, JStr(environment)>>,
      <<<<"currentWorkers">>, JInt(2)>>,
      <<<<"targetWorkers">>, JInt(workers)>>,
      <<<<"message">>, JStr((<<"Scaling", " ", "application", " ", "to", " ">> \o str(workers) \o <<" ", "workers">>))>>,
      <<<<"estimatedTime">>, JStr(<<"2-4", " ", "minutes">>)>>,
      <<<<"timestamp">>, JStr((isoformat(now) \o <<"Z">>))>>
    >>), 2)

clear_application_queues_mock(app_name, environment) ==
  json_dumps(
    JDict(<<
      <<<<"status">>, JStr(<<"CLEARING">>)>>,
      <<<<"applicationName">>, JStr(app_name)>>,
      <<<<"environment">>, JStr(environment)>>,
      <<<<"message">>, JStr(<<"Persistent", " ", "queues", " ", "are", " ", "being", " ", "cleared">>)>>,
      <<<<"queueStats">>, JDict(<<
        <<<<"messagesBefore">>, JInt(1247)>>,
        <<<<"messagesCleared">>, JInt(1247)>>
      >>)>>,
      <<<<"timestamp">>, JStr((isoformat(now) \o <<"Z">>))>>
    >>), 2)

\* a variant whose summary counts the memory alert under low
get_active_alerts_mock_miscounting(environment) ==
  json_dumps(
    JDict(<<
      <<<<"environment">>, JStr(environment)>>,
      <<<<"alerts">>, JList(<<
        JDict(<<
          <<<<"id">>, JStr(<<"alert-1001">>)>>,
          <<<<"severity">>, JStr(<<"CRITICAL">>)>>,
          <<<<"application">>, JStr(<<"order-fulfillment-api">>)>>,
          <<<<"type">>, JStr(<<"APPLICATION_FAILURE">>)>>,
          <<<<"message">>, JStr(<<"Application", " ", "failed", " ", "to", " ", "start">>)>>,
          <<<<"triggeredAt">>, JStr(<<"2026-02-14T08", ":", "00", ":", "00Z">>)>>,
          <<<<"status">>, JStr(<<"ACTIVE">>)>>
        >>),
        JDict(<<
          <<<<"id">>, JStr(<<"alert-1002">>)>>,
          <<<<"severity">>, JStr(<<"HIGH">>)>>,
          <<<<"application">>, JStr(<<"payment-processor">>)>>,
          <<<<"type">>, JStr(<<"RESPONSE_TIME_THRESHOLD">>)>>,
          <<<<"message">>, JStr(<<"Average", " ", "response", " ", "time", " ", "exceeded", " ", "1500ms">>)>>,
          <<<<"triggeredAt">>, JStr(<<"2026-02-14T09", ":", "30", ":", "00Z">>)>>,
          <<<<"status">>, JStr(<<"ACTIVE">>)>>,
          <<<<"details">>, JDict(<<
            <<<<"threshold">>, JInt(1500)>>,
            <<<<"current">>, JInt(2100)>>,
            <<<<"unit">>, JStr(<<"ms">>)>>
          >>)>>
        >>),
        JDict(<<
          <<<<"id">>, JStr(<<"alert-1003">>)>>,
          <<<<"severity">>, JStr(<<"MEDIUM">>)>>,
          <<<<"application">>, JStr(<<"payment-processor">>)>>,
          <<<<"type">>, JStr(<<"ERROR_RATE_THRESHOLD">>)>>,
          <<<<"message">>, JStr(<<"Error", " ", "rate", " ", "exceeded", " ", "5%">>)>>,
          <<<<"triggeredAt">>, JStr(<<"2026-02-14T10", ":", "15", ":", "00Z">>)>>,
          <<<<"status">>, JStr(<<"ACTIVE">>)>>,
          <<<<"details">>, JDict(<<
            <<<<"threshold">>, JStr(<<"5%">>)>>,
            <<<<"current">>, JStr(<<"6.8%">>)>>
          >>)>>
        >>),
        JDict(<<
          <<<<"id">>, JStr(<<"alert-1004">>)>>,
          <<<<"severity">>, JStr(<<"MEDIUM">>)>>,
          <<<<"application">>, JStr(<<"payment-processor">>)>>,
          <<<<"type">>, JStr(<<"HIGH_MEMORY_USAGE">>)>>,
          <<<<"message">>, JStr(<<"Worker", " ", "memory", " ", "usage", " ", "at", " ", "71%">>)>>,
          <<<<"triggeredAt">>, JStr(<<"2026-02-14T10", ":", "45", ":", "00Z">>)>>,
          <<<<"status">>, JStr(<<"ACTIVE">>)>>,
          <<<<"worker">>, JStr(<<"worker-1">>)>>
        >>)
      >>)>>,
      <<<<"summary">>, JDict(<<
        <<<<"total">>, JInt(4)>>,
        <<<<"critical">>, JInt(1)>>,
        <<<<"high">>, JInt(1)>>,
        <<<<"medium">>, JInt(1)>>,
        <<<<"low">>, JInt(1)>>
      >>)>>
    >>), 2)

get_active_alerts_mock(environment) ==
  json_dumps(
    JDict(<<
      <<<<"environment">>, JStr(environment)>>,
      <<<<"alerts">>, JList(<<
        JDict(<<
          <<<<"id">>, JStr(<<"alert-1001">>)>>,
          <<<<"severity">>, JStr(<<"CRITICAL">>)>>,
          <<<<"application">>, JStr(<<"order-fulfillment-api">>)>>,
          <<<<"type">>, JStr(<<"APPLICATION_FAILURE">>)>>,
          <<<<"message">>, JStr(<<"Application", " ", "failed", " ", "to", " ", "start">>)>>,
          <<<<"triggeredAt">>, JStr(<<"2026-02-14T08", ":", "00", ":", "00Z">>)>>,
          <<<<"status">>, JStr(<<"ACTIVE">>)>>
        >>),
        JDict(<<
          <<<<"id">>, JStr(<<"alert-1002">>)>>,
          <<<<"severity">>, JStr(<<"HIGH">>)>>,
          <<<<"application">>, JStr(<<"payment-processor">>)>>,
          <<<<"type">>, JStr(<<"RESPONSE_TIME_THRESHOLD">>)>>,
          <<<<"message">>, JStr(<<"Average", " ", "response", " ", "time", " ", "exceeded", " ", "1500ms">>)>>,
          <<<<"triggeredAt">>, JStr(<<"2026-02-14T09", ":", "30", ":", "00Z">>)>>,
          <<<<"status">>, JStr(<<"ACTIVE">>)>>,
          <<<<"details">>, JDict(<<
            <<<<"threshold">>, JInt(1500)>>,
            <<<<"current">>, JInt(2100)>>,
            <<<<"unit">>, JStr(<<"ms">>)>>
          >>)>>
        >>),
        JDict(<<
          <<<<"id">>, JStr(<<"alert-1003">>)>>,
          <<<<"severity">>, JStr(<<"MEDIUM">>)>>,
          <<<<"application">>, JStr(<<"payment-processor">>)>>,
          <<<<"type">>, JStr(<<"ERROR_RATE_THRESHOLD">>)>>,
          <<<<"message">>, JStr(<<"Error", " ", "rate", " ", "exceeded", " ", "5%">>)>>,
          <<<<"triggeredAt">>, JStr(<<"2026-02-14T10", ":", "15", ":", "00Z">>)>>,
          <<<<"status">>, JStr(<<"ACTIVE">>)>>,
          <<<<"details">>, JDict(<<
            <<<<"threshold">>, JStr(<<"5%">>)>>,
            <<<<"current">>, JStr(<<"6.8%">>)>>
          >>)>>
        >>),
        JDict(<<
          <<<<"id">>, JStr(<<"alert-1004">>)>>,
          <<<<"severity">>, JStr(<<"MEDIUM">>)>>,
          <<<<"application">>, JStr(<<"payment-processor">>)>>,
          <<<<"type">>, JStr(<<"HIGH_MEMORY_USAGE">>)>>,
          <<<<"message">>, JStr(<<"Worker", " ", "memory", " ", "usage", " ", "at", " ", "71%">>)>>,
          <<<<"triggeredAt">>, JStr(<<"2026-02-14T10", ":", "45", ":", "00Z">>)>>,
          <<<<"status">>, JStr(<<"ACTIVE">>)>>,
          <<<<"worker">>, JStr(<<"worker-1">>)>>
        >>)
      >>)>>,
      <<<<"summary">>, JDict(<<
        <<<<"total">>, JInt(4)>>,
        <<<<"critical">>, JInt(1)>>,
        <<<<"high">>, JInt(1)>>,
        <<<<"medium">>, JInt(2)>>,
        <<<<"low">>, JInt(0)>>
      >>)>>
    >>), 2)

diagnose_cards_sca_issue_mock(environment) ==
  json_dumps(
    JDict(<<
      <<<<"incident">>, JDict(<<
        <<<<"title">>, JStr(<<"Cards", " ", "SCA", " ", "Access", " ", "Token", " ", "Issues">>)>>,
        <<<<"severity">>, JStr(<<"P2">>)>>,
        <<<<"serviceImpacted">>, JStr(<<"Cards", " ", "SCA">>)>>,
        <<<<"customerImpact">>, JStr(<<"Users", " ", "unable", " ", "to", " ", "perform", " ", "eCommerce", " ", "transactions">>)>>,
        <<<<"startTime">>, JStr(<<"2024-09-06T18", ":", "30", ":", "00Z">>)>>,
        <<<<"duration">>, JStr(<<"45", " ", "minutes", " ", "(ongoing)">>)>>
      >>)>>,
      <<<<"rootCause">>, JDict(<<
        <<<<"primaryIssue">>, JStr(<<"AWS", " ", "Cognito", " ", "System", " ", "API", " ", "timeout">>)>>,
        <<<<"secondaryIssue">>, JStr(<<"OAuth", " ", "authentication", " ", "experience", " ", "API", " ", "returning", " ", "504", " ", "errors">>)>>,
        <<<<"affectedComponents">>, JList(<<
          JStr(<<"oauth-authentication-experience-api">>),
          JStr(<<"cards-sca-business-api">>),
          JStr(<<"cognito-system-api", " ", "(external)">>)
        >>)>>
      >>)>>,
      <<<<"metrics">>, JDict(<<
        <<<<"errorRate">>, JDict(<<
          <<<<"current">>, JStr(<<"12%">>)>>,
          <<<<"threshold">>, JStr(<<"10%">>)>>,
          <<<<"status">>, JStr(<<"CRITICAL">>)>>
        >>)>>,
        <<<<"responseTime">>, JDict(<<
          <<<<"oauth-api">>, JDict(<<
            <<<<"p50">>, JStr(<<"5200ms">>)>>,
            <<<<"p95">>, JStr(<<"timeout", " ", "(>5000ms)">>)>>,
            <<<<"expected">>, JStr(<<"500-800ms">>)>>
          >>)>>
        >>)>>,
        <<<<"failedTransactions">>, JDict(<<
          <<<<"debit">>, JInt(45)>>,
          <<<<"credit">>, JInt(38)>>,
          <<<<"total">>, JInt(83)>>,
          <<<<"last30min">>, JBool(TRUE)>>
        >>)>>,
        <<<<"rateLimiting">>, JDict(<<
          <<<<"remaining">>, JInt(24)>>,
          <<<<"limit">>, JInt(25)>>,
          <<<<"resetIn">>, JStr(<<"857", " ", "seconds">>)>>,
          <<<<"status">>, JStr(<<"OK">>)>>
        >>)>>
      >>)>>,
      <<<<"diagnosticChecks">>, JDict(<<
        <<<<"cognitoSystemAPI">>, JDict(<<
          <<<<"status">>, JStr(<<"DEGRADED">>)>>,
          <<<<"responseTime">>, JStr(<<"5000ms+", " ", "(timeout)">>)>>,
          <<<<"errorType">>, JStr(<<"Gateway", " ", "Timeout">>)>>,
          <<<<"recommendation">>, JStr(<<"Escalate", " ", "to", " ", "AWS", " ", "Cognito", " ", "team">>)>>
        >>)>>,
        <<<<"oauthExperienceAPI">>, JDict(<<
          <<<<"status">>, JStr(<<"DEGRADED">>)>>,
          <<<<"health">>, JStr(<<"STARTED", " ", "but", " ", "returning", " ", "errors">>)>>,
          <<<<"workers">>, JStr(<<"2/2", " ", "healthy">>)>>,
          <<<<"issue">>, JStr(<<"Downstream", " ", "dependency", " ", "(Cognito)", " ", "failing">>)>>
        >>)>>,
        <<<<"cardsSCABusinessAPI">>, JDict(<<
          <<<<"status">>, JStr(<<"DEGRADED">>)>>,
          <<<<"health">>, JStr(<<"STARTED", " ", "but", " ", "failing", " ", "transactions">>)>>,
          <<<<"workers">>, JStr(<<"3/3", " ", "healthy">>)>>,
          <<<<"issue">>, JStr(<<"Cannot", " ", "obtain", " ", "access", " ", "tokens", " ", "from", " ", "OAuth", " ", "API">>)>>
        >>)>>,
        <<<<"businessDashboard">>, JDict(<<
          <<<<"journeyFailures">>, JDict(<<
            <<<<"debitCards">>, JStr(<<"High", " ", "failure", " ", "rate", " ", "on", " ", "authentication", " ", "step">>)>>,
            <<<<"creditCards">>, JStr(<<"High", " ", "failure", " ", "rate", " ", "on", " ", "authentication", " ", "step">>)>>
          >>)>>,
          <<<<"failureRate">>, JStr(<<"12%">>)>>,
          <<<<"trend">>, JStr(<<"Increasing">>)>>
        >>)>>
      >>)>>,
      <<<<"testTransactions">>, JDict(<<
        <<<<"debitTests">>, JDict(<<
          <<<<"attempted">>, JInt(5)>>,
          <<<<"successful">>, JInt(0)>>,
          <<<<"failed">>, JInt(5)>>,
          <<<<"errorMessage">>, JStr(<<"Unable", " ", "to", " ", "authenticate", " ", "-", " ", "access", " ", "token", " ", "unavailable">>)>>
        >>)>>,
        <<<<"creditTests">>, JDict(<<
          <<<<"attempted">>, JInt(5)>>,
          <<<<"successful">>, JInt(1)>>,
          <<<<"failed">>, JInt(4)>>,
          <<<<"errorMessage">>, JStr(<<"504", " ", "Gateway", " ", "Timeout", " ", "from", " ", "OAuth", " ", "API">>)>>
        >>)>>
      >>)>>,
      <<<<"timeline">>, JList(<<
        JDict(<<
          <<<<"time">>, JStr(<<"18", ":", "30", ":", "00">>)>>,
          <<<<"event">>, JStr(<<"First", " ", "504", " ", "errors", " ", "detected", " ", "from", " ", "OAuth", " ", "API">>)>>,
          <<<<"source">>, JStr(<<"Application", " ", "logs">>)>>
        >>),
        JDict(<<
          <<<<"time">>, JStr(<<"18", ":", "32", ":", "00">>)>>,
          <<<<"event">>, JStr(<<"Error", " ", "rate", " ", "spike", " ", "detected", " ", "in", " ", "APPD">>)>>,
          <<<<"metric">>, JStr(<<"Error", " ", "rate", " ", "increased", " ", "from", " ", "2%", " ", "to", " ", "8%">>)>>
        >>),
        JDict(<<
          <<<<"time">>, JStr(<<"18", ":", "35", ":", "00">>)>>,
          <<<<"event">>, JStr(<<"Customer", " ", "complaints", " ", "received">>)>>,
          <<<<"impact">>, JStr(<<"eCommerce", " ", "transactions", " ", "failing">>)>>
        >>),
        JDict(<<
          <<<<"time">>, JStr(<<"18", ":", "36", ":", "00">>)>>,
          <<<<"event">>, JStr(<<"Failure", " ", "rate", " ", "exceeded", " ", "10%", " ", "threshold">>)>>,
          <<<<"action">>, JStr(<<"P3", " ", "ticket", " ", "creation", " ", "triggered">>)>>
        >>),
        JDict(<<
          <<<<"time">>, JStr(<<"18", ":", "38", ":", "00">>)>>,
          <<<<"event">>, JStr(<<"Cognito", " ", "System", " ", "API", " ", "confirmed", " ", "as", " ", "root", " ", "cause">>)>>,
          <<<<"finding">>, JStr(<<"Consistent", " ", "5000ms+", " ", "response", " ", "times">>)>>
        >>)
      >>)>>,
      <<<<"remediationSteps">>, JList(<<
        JDict(<<
          <<<<"step">>, JInt(1)>>,
          <<<<"action">>, JStr(<<"Verify", " ", "Cognito", " ", "System", " ", "API", " ", "health">>)>>,
          <<<<"status">>, JStr(<<"COMPLETED">>)>>,
          <<<<"finding">>, JStr(<<"Cognito", " ", "API", " ", "timing", " ", "out", " ", "-", " ", "AWS", " ", "issue", " ", "suspected">>)>>,
          <<<<"owner">>, JStr(<<"AWS", " ", "Cognito", " ", "team">>)>>
        >>),
        JDict(<<
          <<<<"step">>, JInt(2)>>,
          <<<<"action">>, JStr(<<"Check", " ", "Cards", " ", "SCA", " ", "Business", " ", "dashboard">>)>>,
          <<<<"status">>, JStr(<<"COMPLETED">>)>>,
          <<<<"finding">>, JStr(<<"Failure", " ", "rate", " ", "12%", " ", "on", " ", "authentication", " ", "journeys">>)>>,
          <<<<"tool">>, JStr(<<"Business", " ", "Intelligence", " ", "Dashboard">>)>>
        >>),
        JDict(<<
          <<<<"step">>, JInt(3)>>,
          <<<<"action">>, JStr(<<"Perform", " ", "5", " ", "debit", " ", "+", " ", "5", " ", "credit", " ", "test", " ", "transactions">>)>>,
          <<<<"status">>, JStr(<<"COMPLETED">>)>>,
          <<<<"result">>, JStr(<<"9/10", " ", "failed", " ", "-", " ", "consistent", " ", "authentication", " ", "errors">>)>>
        >>),
        JDict(<<
          <<<<"step">>, JInt(4)>>,
          <<<<"action">>, JStr(<<"Fetch", " ", "MI", " ", "report", " ", "for", " ", "customer", " ", "impact">>)>>,
          <<<<"status">>, JStr(<<"IN_PROGRESS">>)>>,
          <<<<"command">>, JStr(<<"Query", " ", "MI", " ", "system", " ", "for", " ", "failed", " ", "transactions", " ", "in", " ", "timeframe">>)>>
        >>),
        JDict(<<
          <<<<"step">>, JInt(5)>>,
          <<<<"action">>, JStr(<<"Create", " ", "P3", " ", "ticket">>)>>,
          <<<<"status">>, JStr(<<"REQUIRED">>)>>,
          <<<<"reason">>, JStr(<<"Failure", " ", "rate", " ", ">", " ", "10%", " ", "threshold">>)>>,
          <<<<"justification">>, JStr(<<"Continuous", " ", "errors", " ", "impacting", " ", "customer", " ", "transactions">>)>>
        >>),
        JDict(<<
          <<<<"step">>, JInt(6)>>,
          <<<<"action">>, JStr(<<"Escalate", " ", "to", " ", "AWS", " ", "Cognito", " ", "team">>)>>,
          <<<<"status">>, JStr(<<"REQUIRED">>)>>,
          <<<<"reason">>, JStr(<<"Root", " ", "cause", " ", "in", " ", "external", " ", "dependency">>)>>,
          <<<<"priority">>, JStr(<<"HIGH">>)>>
        >>),
        JDict(<<
          <<<<"step">>, JInt(7)>>,
          <<<<"action">>, JStr(<<"Implement", " ", "circuit", " ", "breaker", " ", "(if", " ", "prolonged)">>)>>,
          <<<<"status">>, JStr(<<"PENDING">>)>>,
          <<<<"reason">>, JStr(<<"Prevent", " ", "cascade", " ", "failures">>)>>,
          <<<<"estimatedTime">>, JStr(<<"30", " ", "minutes">>)>>
        >>)
      >>)>>,
      <<<<"p3TicketCriteria">>, JDict(<<
        <<<<"scenario1">>, JDict(<<
          <<<<"condition">>, JStr(<<"Spike", " ", "occurs", " ", "and", " ", "resolves">>)>>,
          <<<<"action">>, JStr(<<"Create", " ", "P3", " ", "to", " ", "analyze", " ", "what", " ", "happened">>)>>,
          <<<<"preventive">>, JBool(TRUE)>>
        >>)>>,
        <<<<"scenario2">>, JDict(<<
          <<<<"condition">>, JStr(<<"Errors", " ", "continuously", " ", "coming">>)>>,
          <<<<"action">>, JStr(<<"Create", " ", "P3", " ", "to", " ", "quickly", " ", "investigate">>)>>,
          <<<<"reactive">>, JBool(TRUE)>>,
          <<<<"current">>, JStr(<<"THIS", " ", "SCENARIO", " ", "-", " ", "ERRORS", " ", "ONGOING">>)>>
        >>)>>
      >>)>>,
      <<<<"recommendations">>, JDict(<<
        <<<<"immediate">>, JList(<<
          JStr(<<"Escalate", " ", "to", " ", "AWS", " ", "Cognito", " ", "support", " ", "team", " ", "immediately">>),
          JStr(<<"Implement", " ", "circuit", " ", "breaker", " ", "for", " ", "OAuth", " ", "API", " ", "to", " ", "prevent", " ", "cascade", " ", "failures">>),
          JStr(<<"Enable", " ", "fallback", " ", "authentication", " ", "mechanism", " ", "if", " ", "available">>),
          JStr(<<"Increase", " ", "timeout", " ", "threshold", " ", "temporarily", " ", "(from", " ", "5s", " ", "to", " ", "10s)", " ", "to", " ", "allow", " ", "slow", " ", "responses">>)
        >>)>>,
        <<<<"shortTerm">>, JList(<<
          JStr(<<"Add", " ", "health", " ", "check", " ", "endpoint", " ", "for", " ", "Cognito", " ", "System", " ", "API">>),
          JStr(<<"Implement", " ", "retry", " ", "logic", " ", "with", " ", "exponential", " ", "backoff">>),
          JStr(<<"Set", " ", "up", " ", "proactive", " ", "alerts", " ", "for", " ", "Cognito", " ", "API", " ", "latency">>),
          JStr(<<"Create", " ", "runbook", " ", "for", " ", "OAuth/Cognito", " ", "failures">>)
        >>)>>,
        <<<<"longTerm">>, JList(<<
          JStr(<<"Implement", " ", "authentication", " ", "service", " ", "redundancy">>),
          JStr(<<"Consider", " ", "multi-region", " ", "Cognito", " ", "setup">>),
          JStr(<<"Add", " ", "caching", " ", "layer", " ", "for", " ", "frequently", " ", "used", " ", "tokens">>),
          JStr(<<"Implement", " ", "graceful", " ", "degradation", " ", "for", " ", "authentication", " ", "failures">>)
        >>)>>
      >>)>>,
      <<<<"monitoringAlerts">>, JDict(<<
        <<<<"existing">>, JList(<<
          JDict(<<
            <<<<"name">>, JStr(<<"OAuth", " ", "API", " ", "Error", " ", "Rate">>)>>,
            <<<<"threshold">>, JStr(<<"10%">>)>>,
            <<<<"current">>, JStr(<<"12%">>)>>,
            <<<<"status">>, JStr(<<"TRIGGERED">>)>>
          >>),
          JDict(<<
            <<<<"name">>, JStr(<<"Response", " ", "Time", " ", "P95">>)>>,
            <<<<"threshold">>, JStr(<<"2000ms">>)>>,
            <<<<"current">>, JStr(<<"5000ms+">>)>>,
            <<<<"status">>, JStr(<<"TRIGGERED">>)>>
          >>)
        >>)>>,
        <<<<"recommended">>, JList(<<
          JDict(<<
            <<<<"name">>, JStr(<<"Cognito", " ", "API", " ", "Health", " ", "Check">>)>>,
            <<<<"threshold">>, JStr(<<"Response", " ", "time", " ", ">", " ", "3000ms">>)>>,
            <<<<"severity">>, JStr(<<"HIGH">>)>>
          >>),
          JDict(<<
            <<<<"name">>, JStr(<<"Cards", " ", "SCA", " ", "Transaction", " ", "Failure", " ", "Rate">>)>>,
            <<<<"threshold">>, JStr(<<">", " ", "5%">>)>>,
            <<<<"severity">>, JStr(<<"MEDIUM">>)>>
          >>),
          JDict(<<
            <<<<"name">>, JStr(<<"Access", " ", "Token", " ", "Generation", " ", "Failures">>)>>,
            <<<<"threshold">>, JStr(<<">", " ", "3", " ", "failures", " ", "in", " ", "5", " ", "minutes">>)>>,
            <<<<"severity">>, JStr(<<"HIGH">>)>>
          >>)
        >>)>>
      >>)>>,
      <<<<"customerImpact">>, JDict(<<
        <<<<"affectedUsers">>, JStr(<<"~500", " ", "users", " ", "(estimated", " ", "based", " ", "on", " ", "failed", " ", "transactions)">>)>>,
        <<<<"affectedTransactions">>, JInt(83)>>,
        <<<<"revenueImpact">>, JStr(<<"~$12", ",", "450", " ", "in", " ", "failed", " ", "transactions">>)>>,
        <<<<"customerExperience">>, JStr(<<"Unable", " ", "to", " ", "complete", " ", "purchases", " ", "-", " ", "authentication", " ", "failures">>)>>,
        <<<<"duration">>, JStr(<<"45", " ", "minutes", " ", "(ongoing)">>)>>
      >>)>>
    >>), 2)

\* a variant whose suggested properties are written with single quotes
diagnose_application_failure_mock_single_quoted(app_name, environment) ==
  IF app_name = <<"order-fulfillment-api">> THEN
  json_dumps(
    JDict(<<
      <<<<"applicationName">>, JStr(app_name)>>,
      <<<<"environment">>, JStr(environment)>>,
      <<<<"diagnosis">>, JDict(<<
        <<<<"rootCause">>, JStr(<<"MISSING_CONFIGURATION">>)>>,
        <<<<"details">>, JStr(<<"Required", " ", "configuration", " ", "property", " ", "'db.host'", " ", "is", " ", "not", " ", "set">>)>>,
        <<<<"impact">>, JStr(<<"Application", " ", "unable", " ", "to", " ", "start", " ", "-", " ", "service", " ", "unavailable">>)>>,
        <<<<"affectedUsers">>, JStr(<<"All", " ", "users", " ", "attempting", " ", "to", " ", "access", " ", "order", " ", "fulfillment", " ", "service">>)>>
      >>)>>,
      <<<<"timeline">>, JList(<<
        JDict(<<
          <<<<"timestamp">>, JStr(<<"2026-02-14T07", ":", "55", ":", "00Z">>)>>,
          <<<<"event">>, JStr(<<"Deployment", " ", "initiated">>)>>,
          <<<<"user">>, JStr(<<"admin@company.com">>)>>
        >>),
        JDict(<<
          <<<<"timestamp">>, JStr(<<"2026-02-14T07", ":", "58", ":", "00Z">>)>>,
          <<<<"event">>, JStr(<<"Configuration", " ", "validation", " ", "failed">>)>>
        >>),
        JDict(<<
          <<<<"timestamp">>, JStr(<<"2026-02-14T08", ":", "00", ":", "00Z">>)>>,
          <<<<"event">>, JStr(<<"Application", " ", "startup", " ", "failed">>)>>
        >>)
      >>)>>,
      <<<<"logs">>, JList(<<
        JStr(<<"ERROR", ":", " ", "Configuration", " ", "property", " ", "'db.host'", " ", "is", " ", "required", " ", "but", " ", "not", " ", "set">>),
        JStr(<<"FATAL", ":", " ", "Application", " ", "startup", " ", "failed">>),
        JStr(<<"INFO", ":", " ", "Application", " ", "deployment", " ", "failed", ":", " ", "order-fulfillment-api">>)
      >>)>>,
      <<<<"remediationSteps">>, JList(<<
        JDict(<<
          <<<<"step">>, JInt(1)>>,
          <<<<"action">>, JStr(<<"Add", " ", "missing", " ", "configuration", " ", "property">>)>>,
          <<<<"command">>, JStr(<<"update_application_properties">>)>>,
          <<<<"parameters">>, JDict(<<
            <<<<"app_name">>, JStr(app_name)>>,
            <<<<"properties">>, JStr(<<"{", "'", "db.host", "'", ":", " ", "'", "production-db.company.com", "'", ",", " ", "'", "db.port", "'", ":", " ", "'", "5432", "'", "}">>)>>
          >>)>>
        >>),
        JDict(<<
          <<<<"step">>, JInt(2)>>,
          <<<<"action">>, JStr(<<"Restart", " ", "application">>)>>,
          <<<<"command">>, JStr(<<"restart_application">>)>>,
          <<<<"parameters">>, JDict(<<
            <<<<"app_name">>, JStr(app_name)>>
          >>)>>
        >>),
        JDict(<<
          <<<<"step">>, JInt(3)>>,
          <<<<"action">>, JStr(<<"Verify", " ", "application", " ", "health">>)>>,
          <<<<"command">>, JStr(<<"get_application_health">>)>>,
          <<<<"parameters">>, JDict(<<
            <<<<"app_name">>, JStr(app_name)>>
          >>)>>
        >>)
      >>)>>,
      <<<<"preventionRecommendations">>, JList(<<
        JStr(<<"Implement", " ", "configuration", " ", "validation", " ", "in", " ", "CI/CD", " ", "pipeline">>),
        JStr(<<"Use", " ", "environment-specific", " ", "configuration", " ", "management">>),
        JStr(<<"Add", " ", "pre-deployment", " ", "smoke", " ", "tests">>)
      >>)>>
    >>), 2)
  ELSE
  json_dumps(
    JDict(<<
      <<<<"applicationName">>, JStr(app_name)>>,
      <<<<"environment">>, JStr(environment)>>,
      <<<<"message">>, JStr(<<"No", " ", "critical", " ", "failures", " ", "detected", " ", "for", " ", "this", " ", "application">>)>>
    >>), 2)

diagnose_application_failure_mock(app_name, environment) ==
  IF app_name = <<"order-fulfillment-api">> THEN
  json_dumps(
    JDict(<<
      <<<<"applicationName">>, JStr(app_name)>>,
      <<<<"environment">>, JStr(environment)>>,
      <<<<"diagnosis">>, JDict(<<
        <<<<"rootCause">>, JStr(<<"MISSING_CONFIGURATION">>)>>,
        <<<<"details">>, JStr(<<"Required", " ", "configuration", " ", "property", " ", "'db.host'", " ", "is", " ", "not", " ", "set">>)>>,
        <<<<"impact">>, JStr(<<"Application", " ", "unable", " ", "to", " ", "start", " ", "-", " ", "service", " ", "unavailable">>)>>,
        <<<<"affectedUsers">>, JStr(<<"All", " ", "users", " ", "attempting", " ", "to", " ", "access", " ", "order", " ", "fulfillment", " ", "service">>)>>
      >>)>>,
      <<<<"timeline">>, JList(<<
        JDict(<<
          <<<<"timestamp">>, JStr(<<"2026-02-14T07", ":", "55", ":", "00Z">>)>>,
          <<<<"event">>, JStr(<<"Deployment", " ", "initiated">>)>>,
          <<<<"user">>, JStr(<<"admin@company.com">>)>>
        >>),
        JDict(<<
          <<<<"timestamp">>, JStr(<<"2026-02-14T07", ":", "58", ":", "00Z">>)>>,
          <<<<"event">>, JStr(<<"Configuration", " ", "validation", " ", "failed">>)>>
        >>),
        JDict(<<
          <<<<"timestamp">>, JStr(<<"2026-02-14T08", ":", "00", ":", "00Z">>)>>,
          <<<<"event">>, JStr(<<"Application", " ", "startup", " ", "failed">>)>>
        >>)
      >>)>>,
      <<<<"logs">>, JList(<<
        JStr(<<"ERROR", ":", " ", "Configuration", " ", "property", " ", "'db.host'", " ", "is", " ", "required", " ", "but", " ", "not", " ", "set">>),
        JStr(<<"FATAL", ":", " ", "Application", " ", "startup", " ", "failed">>),
        JStr(<<"INFO", ":", " ", "Application", " ", "deployment", " ", "failed", ":", " ", "order-fulfillment-api">>)
      >>)>>,
      <<<<"remediationSteps">>, JList(<<
        JDict(<<
          <<<<"step">>, JInt(1)>>,
          <<<<"action">>, JStr(<<"Add", " ", "missing", " ", "configuration", " ", "property">>)>>,
          <<<<"command">>, JStr(<<"update_application_properties">>)>>,
          <<<<"parameters">>, JDict(<<
            <<<<"app_name">>, JStr(app_name)>>,
            <<<<"properties">>, JStr(<<"{", "\"", "db.host", "\"", ":", " ", "\"", "production-db.company.com", "\"", ",", " ", "\"", "db.port", "\"", ":", " ", "\"", "5432", "\"", "}">>)>>
          >>)>>
        >>),
        JDict(<<
          <<<<"step">>, JInt(2)>>,
          <<<<"action">>, JStr(<<"Restart", " ", "application">>)>>,
          <<<<"command">>, JStr(<<"restart_application">>)>>,
          <<<<"parameters">>, JDict(<<
            <<<<"app_name">>, JStr(app_name)>>
          >>)>>
        >>),
        JDict(<<
          <<<<"step">>, JInt(3)>>,
          <<<<"action">>, JStr(<<"Verify", " ", "application", " ", "health">>)>>,
          <<<<"command">>, JStr(<<"get_application_health">>)>>,
          <<<<"parameters">>, JDict(<<
            <<<<"app_name">>, JStr(app_name)>>
          >>)>>
        >>)
      >>)>>,
      <<<<"preventionRecommendations">>, JList(<<
        JStr(<<"Implement", " ", "configuration", " ", "validation", " ", "in", " ", "CI/CD", " ", "pipeline">>),
        JStr(<<"Use", " ", "environment-specific", " ", "configuration", " ", "management">>),
        JStr(<<"Add", " ", "pre-deployment", " ", "smoke", " ", "tests">>)
      >>)>>
    >>), 2)
  ELSE
  json_dumps(
    JDict(<<
      <<<<"applicationName">>, JStr(app_name)>>,
      <<<<"environment">>, JStr(environment)>>,
      <<<<"message">>, JStr(<<"No", " ", "critical", " ", "failures", " ", "detected", " ", "for", " ", "this", " ", "application">>)>>
    >>), 2)

diagnose_performance_issue_mock(app_name, environment) ==
  IF app_name = <<"payment-processor">> THEN
  json_dumps(
    JDict(<<
      <<<<"applicationName">>, JStr(app_name)>>,
      <<<<"environment">>, JStr(environment)>>,
      <<<<"performanceAnalysis">>, JDict(<<
        <<<<"overallRating">>, JStr(<<"POOR">>)>>,
        <<<<"issues">>, JList(<<
          JDict(<<
            <<<<"type">>, JStr(<<"HIGH_RESPONSE_TIME">>)>>,
            <<<<"severity">>, JStr(<<"HIGH">>)>>,
            <<<<"metric">>, JStr(<<"Average", " ", "response", " ", "time", ":", " ", "2100ms">>)>>,
            <<<<"threshold">>, JStr(<<"1500ms">>)>>,
            <<<<"deviation">>, JStr(<<"+40%">>)>>
          >>),
          JDict(<<
            <<<<"type">>, JStr(<<"BACKEND_LATENCY">>)>>,
            <<<<"severity">>, JStr(<<"HIGH">>)>>,
            <<<<"metric">>, JStr(<<"Payment", " ", "gateway", " ", "latency", ":", " ", "2500ms">>)>>,
            <<<<"expectedRange">>, JStr(<<"500-1000ms">>)>>,
            <<<<"deviation">>, JStr(<<"+150%">>)>>
          >>),
          JDict(<<
            <<<<"type">>, JStr(<<"ERROR_RATE">>)>>,
            <<<<"severity">>, JStr(<<"MEDIUM">>)>>,
            <<<<"metric">>, JStr(<<"Error", " ", "rate", ":", " ", "6.8%">>)>>,
            <<<<"threshold">>, JStr(<<"5%">>)>>,
            <<<<"primaryError">>, JStr(<<"Gateway", " ", "timeout", " ", "(68%", " ", "of", " ", "errors)">>)>>
          >>)
        >>)>>,
        <<<<"bottlenecks">>, JList(<<
          JDict(<<
            <<<<"component">>, JStr(<<"Payment", " ", "Gateway", " ", "Integration">>)>>,
            <<<<"impact">>, JStr(<<"High">>)>>,
            <<<<"description">>, JStr(<<"External", " ", "payment", " ", "gateway", " ", "showing", " ", "high", " ", "latency", " ", "and", " ", "timeout", " ", "rate">>)>>,
            <<<<"affectedEndpoints">>, JList(<<
              JStr(<<"/api/v2/payments/process">>),
              JStr(<<"/api/v2/payments/validate">>)
            >>)>>
          >>),
          JDict(<<
            <<<<"component">>, JStr(<<"Database", " ", "Connection", " ", "Pool">>)>>,
            <<<<"impact">>, JStr(<<"Medium">>)>>,
            <<<<"description">>, JStr(<<"Connection", " ", "pool", " ", "utilization", " ", "at", " ", "80%">>)>>,
            <<<<"recommendation">>, JStr(<<"Increase", " ", "pool", " ", "size", " ", "or", " ", "optimize", " ", "queries">>)>>
          >>)
        >>)>>,
        <<<<"recommendations">>, JList(<<
          JDict(<<
            <<<<"priority">>, JStr(<<"HIGH">>)>>,
            <<<<"category">>, JStr(<<"External", " ", "Integration">>)>>,
            <<<<"recommendation">>, JStr(<<"Implement", " ", "circuit", " ", "breaker", " ", "pattern", " ", "for", " ", "payment", " ", "gateway">>)>>,
            <<<<"expectedImpact">>, JStr(<<"Reduce", " ", "timeout", " ", "errors", " ", "by", " ", "60-80%">>)>>,
            <<<<"effort">>, JStr(<<"Medium">>)>>
          >>),
          JDict(<<
            <<<<"priority">>, JStr(<<"HIGH">>)>>,
            <<<<"category">>, JStr(<<"External", " ", "Integration">>)>>,
            <<<<"recommendation">>, JStr(<<"Add", " ", "request", " ", "timeout", " ", "configuration", " ", "(3s", " ", "max)">>)>>,
            <<<<"expectedImpact">>, JStr(<<"Prevent", " ", "long-running", " ", "requests", " ", "from", " ", "blocking", " ", "workers">>)>>,
            <<<<"effort">>, JStr(<<"Low">>)>>
          >>),
          JDict(<<
            <<<<"priority">>, JStr(<<"MEDIUM">>)>>,
            <<<<"category">>, JStr(<<"Caching">>)>>,
            <<<<"recommendation">>, JStr(<<"Implement", " ", "response", " ", "caching", " ", "for", " ", "validation", " ", "endpoints">>)>>,
            <<<<"expectedImpact">>, JStr(<<"Reduce", " ", "load", " ", "by", " ", "30-40%">>)>>,
            <<<<"effort">>, JStr(<<"Medium">>)>>
          >>),
          JDict(<<
            <<<<"priority">>, JStr(<<"MEDIUM">>)>>,
            <<<<"category">>, JStr(<<"Scaling">>)>>,
            <<<<"recommendation">>, JStr(<<"Scale", " ", "from", " ", "2", " ", "to", " ", "4", " ", "workers", " ", "during", " ", "peak", " ", "hours">>)>>,
            <<<<"expectedImpact">>, JStr(<<"Improve", " ", "throughput", " ", "and", " ", "reduce", " ", "queue", " ", "times">>)>>,
            <<<<"effort">>, JStr(<<"Low">>)>>
          >>),
          JDict(<<
            <<<<"priority">>, JStr(<<"LOW">>)>>,
            <<<<"category">>, JStr(<<"Database">>)>>,
            <<<<"recommendation">>, JStr(<<"Increase", " ", "database", " ", "connection", " ", "pool", " ", "size">>)>>,
            <<<<"expectedImpact">>, JStr(<<"Reduce", " ", "connection", " ", "wait", " ", "times">>)>>,
            <<<<"effort">>, JStr(<<"Low">>)>>
          >>)
        >>)>>
      >>)>>,
      <<<<"metrics">>, JDict(<<
        <<<<"responseTime">>, JDict(<<
          <<<<"current">>, JInt(2100)>>,
          <<<<"target">>, JInt(1500)>>,
          <<<<"p95">>, JInt(3500)>>,
          <<<<"p99">>, JInt(5200)>>
        >>)>>,
        <<<<"throughput">>, JDict(<<
          <<<<"requestsPerSecond">>, JFloat("12.5")>>,
          <<<<"peakRequestsPerSecond">>, JFloat("28.3")>>
        >>)>>,
        <<<<"resources">>, JDict(<<
          <<<<"cpuAverage">>, JStr(<<"48%">>)>>,
          <<<<"memoryAverage">>, JStr(<<"69%">>)>>,
          <<<<"workerUtilization">>, JStr(<<"High">>)>>
        >>)>>
      >>)>>
    >>), 2)
  ELSE
  json_dumps(
    JDict(<<
      <<<<"applicationName">>, JStr(app_name)>>,
      <<<<"environment">>, JStr(environment)>>,
      <<<<"performanceAnalysis">>, JDict(<<
        <<<<"overallRating">>, JStr(<<"GOOD">>)>>,
        <<<<"message">>, JStr(<<"No", " ", "significant", " ", "performance", " ", "issues", " ", "detected">>)>>
      >>)>>
    >>), 2)

execute_custom_anypoint_command_mock(command) ==
  json_dumps(
    JDict(<<
      <<<<"message">>, JStr(<<"Mock", " ", "mode", " ", "enabled", " ", "-", " ", "command", " ", "not", " ", "executed">>)>>,
      <<<<"command">>, JStr(command)>>,
      <<<<"note">>, JStr(<<"Set", " ", "MULESOFT_MOCK_MODE=false", " ", "to", " ", "execute", " ", "real", " ", "commands">>)>>
    >>), 2)

\* --------------------------------------------------------------------------
\* Bounds and input sets
\* --------------------------------------------------------------------------
MaxClock == 1
Callers == {"c1", "c2"}

unset == [set |-> FALSE, val |-> << >>]
setto(v) == [set |-> TRUE, val |-> v]
EnvValues ==
  { unset,
    setto(<<"t", "r", "u", "e">>),
    setto(<<"T", "R", "U", "E">>),
    setto(<<"T", "r", "u", "e">>),
    setto(<<"t", "R", "u", "E">>),
    setto(<<"f", "a", "l", "s", "e">>),
    setto(<<"F", "a", "l", "s", "e">>),
    setto(<<"0">>),
    setto(<<"1">>),
    setto(<<"y", "e", "s">>),
    setto(<< >>),
    setto(<<" ", "t", "r", "u", "e">>) }
StartEnvValues == {unset, setto(<<"t", "r", "u", "e">>), setto(<<"f", "a", "l", "s", "e">>)}

AppNames ==
  { <<"order-fulfillment-api">>, <<"payment-processor">>,
    <<"oauth-authentication-experience-api">>, <<"cards-sca-business-api">>,
    <<"customer-api">>, <<"Order-Fulfillment-API">>, << >>,
    <<"my", "\"", "app", "\\", "1">> }
FewAppNames == { <<"order-fulfillment-api">>, <<"payment-processor">>, <<"my", "\"", "app", "\\", "1">> }
Environments == { <<"Production">>, <<"Staging", " ", "\"", "blue", "\"">> }
ApiIds == { <<"12346">>, <<"12345">>, << >> }
Periods == { <<"1h">>, <<"fortnight">> }
WorkerIds == { <<"worker-0">>, <<"worker-9">> }
WorkerCounts == { 1, 0, -1 }
WorkerTypes == { <<"MICRO">>, <<"HUGE">> }
TailLines == { 100, 2, 0 }
ArtifactPaths == { <<"/tmp/app.jar">> }
PropertyStrings ==
  { <<"{", "\"", "db.host", "\"", ":", " ", "\"", "production-db.company.com", "\"", ",", " ",
      "\"", "db.port", "\"", ":", " ", "\"", "5432", "\"", "}">>,
    <<"{", "}">>,
    <<" ", "{", "\"", "a", "\"", ":", "1", ",", "\"", "a", "\"", ":", "2", ",", "\"", "b", "\"", ":",
      "[", "true", ",", "null", ",", "0.1", ",", "\"", "x", "\\", "\"", "y", "\"", "]", "}", "\n">>,
    <<"{", "\"", "error", "\"", ":", " ", "1", "}">>,
    <<"[", "1", ",", " ", "2", "]">>,
    <<"\"", "text", "\"">>,
    <<"NaN">>,
    <<"{", "\"", "ratio", "\"", ":", " ", "-Infinity", "}">>,
    << >>,
    <<"db.host=production-db.company.com">>,
    <<"{", "\"", "db.host", "\"", ":", " ", "\"", "x", "\"", ",", "}">>,
    <<"{", "'", "db.host", "'", ":", " ", "1", "}">>,
    <<"{", "\"", "a", "\"", ":", " ", "1", "}", " ", "x">>,
    <<"{", "\"", "a", "\"", ":", " ", "\"", "line", "\n", "break", "\"", "}">> }
Commands ==
  { <<"runtime-mgr", " ", "cloudhub-application", " ", "list", " ", "--environment", " ", "Production">>,
    << >>,
    <<" ", "api-mgr", " ", " ", "api", " ", "list", "\t">>,
    <<"exchange", " ", "asset", " ", "describe", " ", "\"", "my", " ", "asset", "\"">> }

\* what a child process may end with
ReturnCodes == { 0, 1 }
Stdouts == { <<"[", "]">>, <<"deployed">> }
Stderrs == { << >>, <<"Unauthorized", ":", " ", "\"", "token", "\"", " ", "expired">> }

\* --------------------------------------------------------------------------
\* The mode flag: os.getenv("MULESOFT_MOCK_MODE", "true").lower() == "true"
\* --------------------------------------------------------------------------
getenv(env, default) == IF env.set THEN env.val ELSE default

lower_char(c) ==
  CASE c = "A" -> "a" [] c = "B" -> "b" [] c = "C" -> "c" [] c = "D" -> "d"
    [] c = "E" -> "e" [] c = "F" -> "f" [] c = "G" -> "g" [] c = "H" -> "h"
    [] c = "I" -> "i" [] c = "J" -> "j" [] c = "K" -> "k" [] c = "L" -> "l"
    [] c = "M" -> "m" [] c = "N" -> "n" [] c = "O" -> "o" [] c = "P" -> "p"
    [] c = "Q" -> "q" [] c = "R" -> "r" [] c = "S" -> "s" [] c = "T" -> "t"
    [] c = "U" -> "u" [] c = "V" -> "v" [] c = "W" -> "w" [] c = "X" -> "x"
    [] c = "Y" -> "y" [] c = "Z" -> "z" [] OTHER -> c
lower(s) == [i \in 1..Len(s) |-> lower_char(s[i])]

\* a variant that compares the value as it is written
mock_flag_case_sensitive(env) == getenv(env, <<"t", "r", "u", "e">>) = <<"t", "r", "u", "e">>

mock_flag(env) == lower(getenv(env, <<"t", "r", "u", "e">>)) = <<"t", "r", "u", "e">>

\* --------------------------------------------------------------------------
\* A tool call: its return, and its one call of subprocess.run
\* --------------------------------------------------------------------------
NoCall == [pc |-> "idle", op |-> "", args |-> << >>, result |-> << >>,
           exc |-> "", runs |-> 0, branch |-> ""]
NoProc == [state |-> "none", argv |-> << >>, returncode |-> 0,
           stdout |-> << >>, stderr |-> << >>]

\* the caller has no call outstanding
callable(t) == call[t].pc = "idle"

\* a variant that keeps the latest mock text in one buffer shared by the calls
return_mock_shared_buffer(t, op, args, text) ==
  /\ call' = [u \in Callers |->
               IF u = t
               THEN [pc |-> "returned", op |-> op, args |-> args, result |-> text,
                     exc |-> "", runs |-> 0, branch |-> "mock"]
               ELSE IF call[u].pc = "returned"
                    THEN [call[u] EXCEPT !.result = text]
                    ELSE call[u]]
  /\ proc' = [proc EXCEPT ![t] = NoProc]

\* the mock branch returns its text
return_mock(t, op, args, text) ==
  /\ call' = [call EXCEPT ![t] = [pc |-> "returned", op |-> op, args |-> args,
                                  result |-> text, exc |-> "", runs |-> 0,
                                  branch |-> "mock"]]
  /\ proc' = [proc EXCEPT ![t] = NoProc]

\* str(e) of the OSError raised when the executable cannot be started
FileNotFoundError ==
  <<"[", "Errno", " ", "2", "]", " ", "No", " ", "such", " ", "file", " ", "or", " ",
    "directory", ":", " ", "'anypoint-cli'">>

\* subprocess.run(argv, capture_output=True, text=True, check=True) is entered:
\* the child is started and the caller blocks in communicate(), or the
\* executable cannot be started and OSError is raised at once.  `except_all`
\* says whether the tool has an `except Exception` clause.
subprocess_run(t, op, args, argv, except_all) ==
  \E started \in BOOLEAN :
    IF started
    THEN /\ call' = [call EXCEPT ![t] = [pc |-> "blocked", op |-> op, args |-> args,
                                         result |-> << >>, exc |-> "",
                                         runs |-> call[t].runs + 1, branch |-> "live"]]
         /\ proc' = [proc EXCEPT ![t] = [state |-> "running", argv |-> argv,
                                         returncode |-> 0, stdout |-> << >>,
                                         stderr |-> << >>]]
    ELSE /\ call' = [call EXCEPT ![t] =
                      IF except_all
                      THEN [pc |-> "returned", op |-> op, args |-> args,
                            result |-> <<"Error", " ", "executing", " ", "command", ":", " ">>
                                       \o FileNotFoundError,
                            exc |-> "", runs |-> call[t].runs + 1, branch |-> "live"]
                      ELSE [pc |-> "raised", op |-> op, args |-> args,
                            result |-> << >>, exc |-> "FileNotFoundError",
                            runs |-> call[t].runs + 1, branch |-> "live"]]
         /\ proc' = [proc EXCEPT ![t] = [state |-> "not_started", argv |-> argv,
                                         returncode |-> 0, stdout |-> << >>,
                                         stderr |-> << >>]]

\* the child process ends, with some exit status and some captured output
child_exits(t) ==
  /\ proc[t].state = "running"
  /\ \E rc \in ReturnCodes, out \in Stdouts, err \in Stderrs :
       proc' = [proc EXCEPT ![t] = [@ EXCEPT !.state = "exited", !.returncode = rc,
                                             !.stdout = out, !.stderr = err]]
  /\ UNCHANGED <<environ, MOCK_MODE, now, call, http>>

\* a variant that keeps the standard output of a failed command
live_result_merging_streams(returncode, stdout, stderr) ==
  IF returncode = 0 THEN stdout ELSE <<"Error", ":", " ">> \o stdout \o stderr

\* `return result.stdout`, or `except subprocess.CalledProcessError as e:
\* return f"Error: {e.stderr}"` when check=True met a non-zero exit status
live_result(returncode, stdout, stderr) ==
  IF returncode = 0 THEN stdout ELSE <<"Error", ":", " ">> \o stderr

\* a variant that keeps waiting after a non-zero exit status
subprocess_completed_after_success(t) ==
  /\ call[t].pc = "blocked"
  /\ proc[t].state = "exited"
  /\ proc[t].returncode = 0
  /\ call' = [call EXCEPT ![t] = [@ EXCEPT !.pc = "returned",
                !.result = live_result(proc[t].returncode, proc[t].stdout, proc[t].stderr)]]
  /\ UNCHANGED <<environ, MOCK_MODE, now, proc, http>>

\* a variant that starts the command again after a non-zero exit status
subprocess_completed_retrying(t) ==
  /\ call[t].pc = "blocked"
  /\ proc[t].state = "exited"
  /\ IF proc[t].returncode # 0 /\ call[t].runs < 2
     THEN /\ call' = [call EXCEPT ![t] = [@ EXCEPT !.runs = @ + 1]]
          /\ proc' = [proc EXCEPT ![t] = [@ EXCEPT !.state = "running"]]
     ELSE /\ call' = [call EXCEPT ![t] = [@ EXCEPT !.pc = "returned",
                        !.result = live_result(proc[t].returncode, proc[t].stdout, proc[t].stderr)]]
          /\ proc' = proc
  /\ UNCHANGED <<environ, MOCK_MODE, now, http>>

\* subprocess.run returns (or raises CalledProcessError) once the child ended
subprocess_completed(t) ==
  /\ call[t].pc = "blocked"
  /\ proc[t].state = "exited"
  /\ call' = [call EXCEPT ![t] = [@ EXCEPT !.pc = "returned",
                !.result = live_result(proc[t].returncode, proc[t].stdout, proc[t].stderr)]]
  /\ UNCHANGED <<environ, MOCK_MODE, now, proc, http>>

\* str.split(): the words between runs of whitespace
RECURSIVE split_from(_, _, _, _)
split_from(s, i, word, acc) ==
  LET done == IF word = << >> THEN acc ELSE Append(acc, word) IN
  IF i > Len(s) THEN done
  ELSE IF s[i] \in WHITESPACE THEN split_from(s, i + 1, << >>, done)
  ELSE split_from(s, i + 1, Append(word, s[i]), acc)
split(s) == split_from(s, 1, << >>, << >>)

\* the dispatcher hands the result (or the fault) of a finished call to the client
deliver(t) ==
  /\ call[t].pc \in {"returned", "raised"}
  /\ call' = [call EXCEPT ![t] = NoCall]
  /\ proc' = [proc EXCEPT ![t] = NoProc]
  /\ UNCHANGED <<environ, MOCK_MODE, now, http>>

\* --------------------------------------------------------------------------
\* The tools: one action per @mcp.tool() function
\* --------------------------------------------------------------------------
\* a variant that reads the environment variable at each call
list_applications_rereading_environ(t, environment) ==
  LET args == [environment |-> environment]
      argv == <<<<"anypoint-cli">>, <<"runtime-mgr">>, <<"cloudhub-application">>,
           <<"list">>, <<"--environment">>, environment>>
  IN
  /\ callable(t)
  /\ IF mock_flag(environ)
     THEN return_mock(t, "list_applications", args, list_applications_mock(environment))
     ELSE subprocess_run(t, "list_applications", args, argv, FALSE)
  /\ UNCHANGED <<environ, MOCK_MODE, now, http>>

list_applications(t, environment) ==
  LET args == [environment |-> environment]
      argv == <<<<"anypoint-cli">>, <<"runtime-mgr">>, <<"cloudhub-application">>,
           <<"list">>, <<"--environment">>, environment>>
  IN
  /\ callable(t)
  /\ IF MOCK_MODE
     THEN return_mock(t, "list_applications", args, list_applications_mock(environment))
     ELSE subprocess_run(t, "list_applications", args, argv, FALSE)
  /\ UNCHANGED <<environ, MOCK_MODE, now, http>>

describe_application(t, app_name, environment) ==
  LET args == [app_name |-> app_name, environment |-> environment]
      argv == <<<<"anypoint-cli">>, <<"runtime-mgr">>, <<"cloudhub-application">>,
           <<"describe">>, app_name, <<"--environment">>,
           environment>>
  IN
  /\ callable(t)
  /\ IF MOCK_MODE
     THEN return_mock(t, "describe_application", args, describe_application_mock(app_name, environment))
     ELSE subprocess_run(t, "describe_application", args, argv, FALSE)
  /\ UNCHANGED <<environ, MOCK_MODE, now, http>>

get_application_logs(t, app_name, environment, tail_lines) ==
  LET args == [app_name |-> app_name, environment |-> environment, tail_lines |-> tail_lines]
      argv == <<<<"anypoint-cli">>, <<"runtime-mgr">>, <<"cloudhub-application">>,
           <<"tail-logs">>, app_name, <<"--environment">>,
           environment, <<"--lines">>, str(tail_lines)>>
  IN
  /\ callable(t)
  /\ IF MOCK_MODE
     THEN return_mock(t, "get_application_logs", args, get_application_logs_mock(app_name, environment, tail_lines))
     ELSE subprocess_run(t, "get_application_logs", args, argv, FALSE)
  /\ UNCHANGED <<environ, MOCK_MODE, now, http>>

list_apis(t, environment) ==
  LET args == [environment |-> environment]
      argv == <<<<"anypoint-cli">>, <<"api-mgr">>, <<"api">>, <<"list">>,
           <<"--environment">>, environment>>
  IN
  /\ callable(t)
  /\ IF MOCK_MODE
     THEN return_mock(t, "list_apis", args, list_apis_mock(environment))
     ELSE subprocess_run(t, "list_apis", args, argv, FALSE)
  /\ UNCHANGED <<environ, MOCK_MODE, now, http>>

get_api_analytics(t, api_id, period, environment) ==
  LET args == [api_id |-> api_id, period |-> period, environment |-> environment]
      argv == <<<<"anypoint-cli">>, <<"api-mgr">>, <<"analytics">>, <<"query">>,
           <<"--api-id">>, api_id, <<"--period">>, period,
           <<"--environment">>, environment>>
  IN
  /\ callable(t)
  /\ IF MOCK_MODE
     THEN return_mock(t, "get_api_analytics", args, get_api_analytics_mock(api_id, period, environment))
     ELSE subprocess_run(t, "get_api_analytics", args, argv, FALSE)
  /\ UNCHANGED <<environ, MOCK_MODE, now, http>>

list_api_policies(t, api_id, environment) ==
  LET args == [api_id |-> api_id, environment |-> environment]
      argv == <<<<"anypoint-cli">>, <<"api-mgr">>, <<"policy">>, <<"list">>,
           <<"--api-id">>, api_id, <<"--environment">>, environment>>
  IN
  /\ callable(t)
  /\ IF MOCK_MODE
     THEN return_mock(t, "list_api_policies", args, list_api_policies_mock(api_id, environment))
     ELSE subprocess_run(t, "list_api_policies", args, argv, FALSE)
  /\ UNCHANGED <<environ, MOCK_MODE, now, http>>

\* a variant that always asks about the default environment
get_application_health_default_environment(t, app_name, environment) ==
  LET args == [app_name |-> app_name, environment |-> environment]
      argv == <<<<"anypoint-cli">>, <<"runtime-mgr">>, <<"cloudhub-application">>,
           <<"describe">>, app_name, <<"--environment">>,
           <<"Production">>>>
  IN
  /\ callable(t)
  /\ IF MOCK_MODE
     THEN return_mock(t, "get_application_health", args, get_application_health_mock(app_name, <<"Production">>))
     ELSE subprocess_run(t, "get_application_health", args, argv, FALSE)
  /\ UNCHANGED <<environ, MOCK_MODE, now, http>>

get_application_health(t, app_name, environment) ==
  LET args == [app_name |-> app_name, environment |-> environment]
      argv == <<<<"anypoint-cli">>, <<"runtime-mgr">>, <<"cloudhub-application">>,
           <<"describe">>, app_name, <<"--environment">>,
           environment>>
  IN
  /\ callable(t)
  /\ IF MOCK_MODE
     THEN return_mock(t, "get_application_health", args, get_application_health_mock(app_name, environment))
     ELSE subprocess_run(t, "get_application_health", args, argv, FALSE)
  /\ UNCHANGED <<environ, MOCK_MODE, now, http>>

get_worker_diagnostics(t, app_name, worker_id, environment) ==
  LET args == [app_name |-> app_name, worker_id |-> worker_id, environment |-> environment]
      argv == <<<<"anypoint-cli">>, <<"runtime-mgr">>, <<"cloudhub-application">>,
           <<"describe">>, app_name, <<"--environment">>,
           environment>>
  IN
  /\ callable(t)
  /\ IF MOCK_MODE
     THEN return_mock(t, "get_worker_diagnostics", args, get_worker_diagnostics_mock(app_name, worker_id, environment))
     ELSE subprocess_run(t, "get_worker_diagnostics", args, argv, FALSE)
  /\ UNCHANGED <<environ, MOCK_MODE, now, http>>

restart_application(t, app_name, environment) ==
  LET args == [app_name |-> app_name, environment |-> environment]
      argv == <<<<"anypoint-cli">>, <<"runtime-mgr">>, <<"cloudhub-application">>,
           <<"restart">>, app_name, <<"--environment">>, environment>>
  IN
  /\ callable(t)
  /\ IF MOCK_MODE
     THEN return_mock(t, "restart_application", args, restart_application_mock(app_name, environment))
     ELSE subprocess_run(t, "restart_application", args, argv, FALSE)
  /\ UNCHANGED <<environ, MOCK_MODE, now, http>>

deploy_application(t, app_name, artifact_path, environment, workers, worker_type) ==
  LET args == [app_name |-> app_name, artifact_path |-> artifact_path, environment |-> environment, workers |-> workers, worker_type |-> worker_type]
      argv == <<<<"anypoint-cli">>, <<"runtime-mgr">>, <<"cloudhub-application">>,
           <<"deploy">>, app_name, artifact_path,
           <<"--environment">>, environment, <<"--workers">>,
           str(workers), <<"--workerSize">>, worker_type>>
  IN
  /\ callable(t)
  /\ IF MOCK_MODE
     THEN return_mock(t, "deploy_application", args, deploy_application_mock(app_name, artifact_path, environment, workers, worker_type))
     ELSE subprocess_run(t, "deploy_application", args, argv, FALSE)
  /\ UNCHANGED <<environ, MOCK_MODE, now, http>>

update_application_properties(t, app_name, properties, environment) ==
  LET args == [app_name |-> app_name, properties |-> properties, environment |-> environment]
      argv == <<<<"anypoint-cli">>, <<"runtime-mgr">>, <<"cloudhub-application">>,
           <<"modify">>, app_name, <<"--environment">>, environment,
           <<"--property">>, properties>>
  IN
  /\ callable(t)
  /\ IF MOCK_MODE
     THEN return_mock(t, "update_application_properties", args, update_application_properties_mock(app_name, properties, environment))
     ELSE subprocess_run(t, "update_application_properties", args, argv, FALSE)
  /\ UNCHANGED <<environ, MOCK_MODE, now, http>>

scale_application(t, app_name, workers, environment) ==
  LET args == [app_name |-> app_name, workers |-> workers, environment |-> environment]
      argv == <<<<"anypoint-cli">>, <<"runtime-mgr">>, <<"cloudhub-application">>,
           <<"modify">>, app_name, <<"--workers">>, str(workers),
           <<"--environment">>, environment>>
  IN
  /\ callable(t)
  /\ IF MOCK_MODE
     THEN return_mock(t, "scale_application", args, scale_application_mock(app_name, workers, environment))
     ELSE subprocess_run(t, "scale_application", args, argv, FALSE)
  /\ UNCHANGED <<environ, MOCK_MODE, now, http>>

clear_application_queues(t, app_name, environment) ==
  LET args == [app_name |-> app_name, environment |-> environment]
      argv == <<<<"anypoint-cli">>, <<"runtime-mgr">>, <<"cloudhub-application">>,
           <<"clear-queues">>, app_name, <<"--environment">>,
           environment>>
  IN
  /\ callable(t)
  /\ IF MOCK_MODE
     THEN return_mock(t, "clear_application_queues", args, clear_application_queues_mock(app_name, environment))
     ELSE subprocess_run(t, "clear_application_queues", args, argv, FALSE)
  /\ UNCHANGED <<environ, MOCK_MODE, now, http>>

get_active_alerts(t, environment) ==
  LET args == [environment |-> environment]
      argv == <<<<"anypoint-cli">>, <<"monitoring">>, <<"alert">>, <<"list">>,
           <<"--environment">>, environment>>
  IN
  /\ callable(t)
  /\ IF MOCK_MODE
     THEN return_mock(t, "get_active_alerts", args, get_active_alerts_mock(environment))
     ELSE subprocess_run(t, "get_active_alerts", args, argv, FALSE)
  /\ UNCHANGED <<environ, MOCK_MODE, now, http>>

diagnose_cards_sca_issue(t, environment) ==
  LET args == [environment |-> environment]
      argv == <<<<"anypoint-cli">>, <<"runtime-mgr">>, <<"cloudhub-application">>,
           <<"describe">>, <<"cards-sca-business-api">>,
           <<"--environment">>, environment>>
  IN
  /\ callable(t)
  /\ IF MOCK_MODE
     THEN return_mock(t, "diagnose_cards_sca_issue", args, diagnose_cards_sca_issue_mock(environment))
     ELSE subprocess_run(t, "diagnose_cards_sca_issue", args, argv, FALSE)
  /\ UNCHANGED <<environ, MOCK_MODE, now, http>>

diagnose_application_failure(t, app_name, environment) ==
  LET args == [app_name |-> app_name, environment |-> environment]
      argv == <<<<"anypoint-cli">>, <<"runtime-mgr">>, <<"cloudhub-application">>,
           <<"describe">>, app_name, <<"--environment">>,
           environment>>
  IN
  /\ callable(t)
  /\ IF MOCK_MODE
     THEN return_mock(t, "diagnose_application_failure", args, diagnose_application_failure_mock(app_name, environment))
     ELSE subprocess_run(t, "diagnose_application_failure", args, argv, FALSE)
  /\ UNCHANGED <<environ, MOCK_MODE, now, http>>

diagnose_performance_issue(t, app_name, environment) ==
  LET args == [app_name |-> app_name, environment |-> environment]
      argv == <<<<"anypoint-cli">>, <<"monitoring">>, <<"metrics">>, <<"query">>,
           <<"--application">>, app_name, <<"--environment">>,
           environment>>
  IN
  /\ callable(t)
  /\ IF MOCK_MODE
     THEN return_mock(t, "diagnose_performance_issue", args, diagnose_performance_issue_mock(app_name, environment))
     ELSE subprocess_run(t, "diagnose_performance_issue", args, argv, FALSE)
  /\ UNCHANGED <<environ, MOCK_MODE, now, http>>

\* a variant that passes the command string on as one argument
execute_custom_anypoint_command_unsplit(t, command) ==
  LET args == [command |-> command]
      argv == << <<"anypoint-cli">>, command >>
  IN
  /\ callable(t)
  /\ IF MOCK_MODE
     THEN return_mock(t, "execute_custom_anypoint_command", args, execute_custom_anypoint_command_mock(command))
     ELSE subprocess_run(t, "execute_custom_anypoint_command", args, argv, TRUE)
  /\ UNCHANGED <<environ, MOCK_MODE, now, http>>

\* a variant without the mock branch
execute_custom_anypoint_command_unconditional(t, command) ==
  LET args == [command |-> command]
      argv == << <<"anypoint-cli">> >> \o split(command)
  IN
  /\ callable(t)
  /\ subprocess_run(t, "execute_custom_anypoint_command", args, argv, TRUE)
  /\ UNCHANGED <<environ, MOCK_MODE, now, http>>

execute_custom_anypoint_command(t, command) ==
  LET args == [command |-> command]
      argv == << <<"anypoint-cli">> >> \o split(command)
  IN
  /\ callable(t)
  /\ IF MOCK_MODE
     THEN return_mock(t, "execute_custom_anypoint_command", args, execute_custom_anypoint_command_mock(command))
     ELSE subprocess_run(t, "execute_custom_anypoint_command", args, argv, TRUE)
  /\ UNCHANGED <<environ, MOCK_MODE, now, http>>

\* --------------------------------------------------------------------------
\* The HTTP wrapper (render_server.py)
\* --------------------------------------------------------------------------
\* request.host_url of the deployment, without its trailing slash
host_url == <<"http", ":", "//localhost", ":", "10000">>

\* flask.jsonify: the compact encoding, no indentation.  Flask writes the
\* keys of each object in sorted order and ends the body with a newline;
\* the text here keeps the order of the literal, and a body is only ever
\* read through the decoder, by key.
jsonify(obj) ==
  iterencode(obj, [indent |-> -1, item_separator |-> <<",">>,
                   key_separator |-> <<":">>], 0)

\* a variant without the version
health_without_version ==
  JDict(<<
    <<<<"status">>, JStr(<<"healthy">>)>>,
    <<<<"service">>, JStr(<<"MuleSoft", " ", "MCP", " ", "Server">>)>>,
    <<<<"mode">>, JStr(IF mock_flag(environ) THEN <<"MOCK">> ELSE <<"LIVE">>)>>,
    <<<<"timestamp">>, JStr((isoformat(now) \o <<"Z">>))>>
  >>)

\* a variant whose wrapper compares the variable with "true" letter for letter
health_case_sensitive ==
  JDict(<<
    <<<<"status">>, JStr(<<"healthy">>)>>,
    <<<<"service">>, JStr(<<"MuleSoft", " ", "MCP", " ", "Server">>)>>,
    <<<<"mode">>, JStr(IF getenv(environ, <<"t", "r", "u", "e">>) = <<"t", "r", "u", "e">>
                       THEN <<"MOCK">> ELSE <<"LIVE">>)>>,
    <<<<"timestamp">>, JStr((isoformat(now) \o <<"Z">>))>>,
    <<<<"version">>, JStr(<<"1.0.0">>)>>
  >>)

\* health(): the document the handler hands to jsonify
health ==
  JDict(<<
    <<<<"status">>, JStr(<<"healthy">>)>>,
    <<<<"service">>, JStr(<<"MuleSoft", " ", "MCP", " ", "Server">>)>>,
    <<<<"mode">>, JStr(IF mock_flag(environ) THEN <<"MOCK">> ELSE <<"LIVE">>)>>,
    <<<<"timestamp">>, JStr((isoformat(now) \o <<"Z">>))>>,
    <<<<"version">>, JStr(<<"1.0.0">>)>>
  >>)

\* info(): the document the handler hands to jsonify
info ==
  JDict(<<
    <<<<"server">>, JStr(<<"MuleSoft", " ", "Anypoint", " ", "Platform", " ", "MCP", " ", "Server">>)>>,
    <<<<"description">>, JStr(<<"AI-powered", " ", "incident", " ", "management", " ", "for", " ", "MuleSoft">>)>>,
    <<<<"mode">>, JStr(getenv(environ, <<"t", "r", "u", "e">>))>>,
    <<<<"scenarios">>, JList(<<
      JDict(<<
        <<<<"name">>, JStr(<<"order-fulfillment-api">>)>>,
        <<<<"status">>, JStr(<<"FAILED">>)>>,
        <<<<"issue">>, JStr(<<"Missing", " ", "configuration">>)>>
      >>),
      JDict(<<
        <<<<"name">>, JStr(<<"payment-processor">>)>>,
        <<<<"status">>, JStr(<<"DEGRADED">>)>>,
        <<<<"issue">>, JStr(<<"High", " ", "latency", ",", " ", "timeouts">>)>>
      >>),
      JDict(<<
        <<<<"name">>, JStr(<<"oauth-authentication-experience-api">>)>>,
        <<<<"status">>, JStr(<<"DEGRADED">>)>>,
        <<<<"issue">>, JStr(<<"Cognito", " ", "timeout", " ", "(504)">>)>>
      >>),
      JDict(<<
        <<<<"name">>, JStr(<<"cards-sca-business-api">>)>>,
        <<<<"status">>, JStr(<<"DEGRADED">>)>>,
        <<<<"issue">>, JStr(<<"OAuth", " ", "token", " ", "issues">>)>>
      >>),
      JDict(<<
        <<<<"name">>, JStr(<<"customer-api">>)>>,
        <<<<"status">>, JStr(<<"HEALTHY">>)>>
      >>),
      JDict(<<
        <<<<"name">>, JStr(<<"inventory-sync-service">>)>>,
        <<<<"status">>, JStr(<<"HEALTHY">>)>>
      >>)
    >>)>>,
    <<<<"endpoints">>, JDict(<<
      <<<<"/">>, JStr(<<"Health", " ", "check">>)>>,
      <<<<"/info">>, JStr(<<"Server", " ", "information">>)>>,
      <<<<"/scenarios">>, JStr(<<"List", " ", "available", " ", "demo", " ", "scenarios">>)>>,
      <<<<"/docs">>, JStr(<<"API", " ", "documentation">>)>>
    >>)>>
  >>)

\* a variant whose catalogue follows the mode flag
scenarios_by_mode ==
  JDict(<<
    <<<<"scenarios">>, JDict(<<
      <<<<"cards-sca">>, JDict(<<
        <<<<"title">>, JStr(<<"Cards", " ", "SCA", " ", "Access", " ", "Token", " ", "Issues">>)>>,
        <<<<"severity">>, JStr(<<"P2">>)>>,
        <<<<"service">>, JStr(<<"Cards", " ", "SCA">>)>>,
        <<<<"impact">>, JStr(<<"Users", " ", "unable", " ", "to", " ", "perform", " ", "eCommerce", " ", "transactions">>)>>,
        <<<<"root_cause">>, JStr(<<"AWS", " ", "Cognito", " ", "System", " ", "API", " ", "timeout", " ", "(504)">>)>>,
        <<<<"error_rate">>, JStr(<<"12%">>)>>,
        <<<<"affected_users">>, JStr(<<"~500">>)>>,
        <<<<"failed_transactions">>, JInt(83)>>
      >>)>>,
      <<<<"order-fulfillment">>, JDict(<<
        <<<<"title">>, JStr(<<"Order", " ", "Fulfillment", " ", "API", " ", "Failure">>)>>,
        <<<<"severity">>, JStr(<<"P1">>)>>,
        <<<<"service">>, JStr(<<"Order", " ", "Fulfillment">>)>>,
        <<<<"impact">>, JStr(<<"Complete", " ", "service", " ", "outage">>)>>,
        <<<<"root_cause">>, JStr(<<"Missing", " ", "configuration", " ", "property", " ", "'db.host'">>)>>,
        <<<<"status">>, JStr(IF mock_flag(environ) THEN <<"FAILED">> ELSE <<"STARTED">>)>>
      >>)>>,
      <<<<"payment-performance">>, JDict(<<
        <<<<"title">>, JStr(<<"Payment", " ", "Processor", " ", "Performance", " ", "Degradation">>)>>,
        <<<<"severity">>, JStr(<<"P2">>)>>,
        <<<<"service">>, JStr(<<"Payment", " ", "Processing">>)>>,
        <<<<"impact">>, JStr(<<"Slow", " ", "transaction", " ", "processing">>)>>,
        <<<<"root_cause">>, JStr(<<"Payment", " ", "gateway", " ", "latency">>)>>,
        <<<<"response_time">>, JStr(<<"2100ms", " ", "(threshold", ":", " ", "1500ms)">>)>>,
        <<<<"error_rate">>, JStr(<<"6.8%">>)>>
      >>)>>
    >>)>>,
    <<<<"note">>, JStr(<<"Use", " ", "MCP", " ", "protocol", " ", "to", " ", "interact", " ", "with", " ", "these", " ", "scenarios", " ", "via", " ", "Claude", " ", "Desktop">>)>>
  >>)

\* scenarios(): the document the handler hands to jsonify
scenarios ==
  JDict(<<
    <<<<"scenarios">>, JDict(<<
      <<<<"cards-sca">>, JDict(<<
        <<<<"title">>, JStr(<<"Cards", " ", "SCA", " ", "Access", " ", "Token", " ", "Issues">>)>>,
        <<<<"severity">>, JStr(<<"P2">>)>>,
        <<<<"service">>, JStr(<<"Cards", " ", "SCA">>)>>,
        <<<<"impact">>, JStr(<<"Users", " ", "unable", " ", "to", " ", "perform", " ", "eCommerce", " ", "transactions">>)>>,
        <<<<"root_cause">>, JStr(<<"AWS", " ", "Cognito", " ", "System", " ", "API", " ", "timeout", " ", "(504)">>)>>,
        <<<<"error_rate">>, JStr(<<"12%">>)>>,
        <<<<"affected_users">>, JStr(<<"~500">>)>>,
        <<<<"failed_transactions">>, JInt(83)>>
      >>)>>,
      <<<<"order-fulfillment">>, JDict(<<
        <<<<"title">>, JStr(<<"Order", " ", "Fulfillment", " ", "API", " ", "Failure">>)>>,
        <<<<"severity">>, JStr(<<"P1">>)>>,
        <<<<"service">>, JStr(<<"Order", " ", "Fulfillment">>)>>,
        <<<<"impact">>, JStr(<<"Complete", " ", "service", " ", "outage">>)>>,
        <<<<"root_cause">>, JStr(<<"Missing", " ", "configuration", " ", "property", " ", "'db.host'">>)>>,
        <<<<"status">>, JStr(<<"FAILED">>)>>
      >>)>>,
      <<<<"payment-performance">>, JDict(<<
        <<<<"title">>, JStr(<<"Payment", " ", "Processor", " ", "Performance", " ", "Degradation">>)>>,
        <<<<"severity">>, JStr(<<"P2">>)>>,
        <<<<"service">>, JStr(<<"Payment", " ", "Processing">>)>>,
        <<<<"impact">>, JStr(<<"Slow", " ", "transaction", " ", "processing">>)>>,
        <<<<"root_cause">>, JStr(<<"Payment", " ", "gateway", " ", "latency">>)>>,
        <<<<"response_time">>, JStr(<<"2100ms", " ", "(threshold", ":", " ", "1500ms)">>)>>,
        <<<<"error_rate">>, JStr(<<"6.8%">>)>>
      >>)>>
    >>)>>,
    <<<<"note">>, JStr(<<"Use", " ", "MCP", " ", "protocol", " ", "to", " ", "interact", " ", "with", " ", "these", " ", "scenarios", " ", "via", " ", "Claude", " ", "Desktop">>)>>
  >>)

\* docs(): the document the handler hands to jsonify
docs ==
  JDict(<<
    <<<<"title">>, JStr(<<"MuleSoft", " ", "MCP", " ", "Server", " ", "API">>)>>,
    <<<<"version">>, JStr(<<"1.0.0">>)>>,
    <<<<"description">>, JStr(<<"HTTP", " ", "endpoints", " ", "for", " ", "the", " ", "MuleSoft", " ", "MCP", " ", "Server", " ", "running", " ", "on", " ", "Render">>)>>,
    <<<<"base_url">>, JStr(host_url)>>,
    <<<<"endpoints">>, JList(<<
      JDict(<<
        <<<<"path">>, JStr(<<"/">>)>>,
        <<<<"method">>, JStr(<<"GET">>)>>,
        <<<<"description">>, JStr(<<"Health", " ", "check", " ", "endpoint">>)>>,
        <<<<"response">>, JStr(<<"Server", " ", "status", " ", "and", " ", "basic", " ", "info">>)>>
      >>),
      JDict(<<
        <<<<"path">>, JStr(<<"/info">>)>>,
        <<<<"method">>, JStr(<<"GET">>)>>,
        <<<<"description">>, JStr(<<"Detailed", " ", "server", " ", "information">>)>>,
        <<<<"response">>, JStr(<<"Server", " ", "details", ",", " ", "mode", ",", " ", "available", " ", "scenarios">>)>>
      >>),
      JDict(<<
        <<<<"path">>, JStr(<<"/scenarios">>)>>,
        <<<<"method">>, JStr(<<"GET">>)>>,
        <<<<"description">>, JStr(<<"List", " ", "all", " ", "demo", " ", "scenarios">>)>>,
        <<<<"response">>, JStr(<<"Available", " ", "incident", " ", "scenarios", " ", "with", " ", "details">>)>>
      >>),
      JDict(<<
        <<<<"path">>, JStr(<<"/docs">>)>>,
        <<<<"method">>, JStr(<<"GET">>)>>,
        <<<<"description">>, JStr(<<"API", " ", "documentation">>)>>,
        <<<<"response">>, JStr(<<"This", " ", "documentation">>)>>
      >>)
    >>)>>,
    <<<<"mcp_integration">>, JDict(<<
      <<<<"note">>, JStr(<<"This", " ", "server", " ", "primarily", " ", "operates", " ", "via", " ", "MCP", " ", "(Model", " ", "Context", " ", "Protocol)">>)>>,
      <<<<"usage">>, JStr(<<"Configure", " ", "in", " ", "Claude", " ", "Desktop", " ", "to", " ", "access", " ", "full", " ", "MCP", " ", "tools">>)>>,
      <<<<"config_example">>, JDict(<<
        <<<<"mcpServers">>, JDict(<<
          <<<<"mulesoft">>, JDict(<<
            <<<<"command">>, JStr(<<"python">>)>>,
            <<<<"args">>, JList(<<
              JStr(<<"path/to/mulesoft_mcp_server_demo.py">>)
            >>)>>,
            <<<<"env">>, JDict(<<
              <<<<"MULESOFT_MOCK_MODE">>, JStr(<<"true">>)>>
            >>)>>
          >>)>>
        >>)>>
      >>)>>
    >>)>>,
    <<<<"demo_mode">>, JDict(<<
      <<<<"enabled">>, JBool(mock_flag(environ))>>,
      <<<<"description">>, JStr(<<"Server", " ", "runs", " ", "with", " ", "simulated", " ", "data", " ", "-", " ", "no", " ", "real", " ", "MuleSoft", " ", "connection", " ", "required">>)>>
    >>)>>
  >>)

\* a variant that does not list /docs
not_found_without_docs(e) ==
  JDict(<<
    <<<<"error">>, JStr(<<"Not", " ", "Found">>)>>,
    <<<<"message">>, JStr(<<"The", " ", "requested", " ", "endpoint", " ", "does", " ", "not", " ", "exist">>)>>,
    <<<<"available_endpoints">>, JList(<<
      JStr(<<"/">>),
      JStr(<<"/health">>),
      JStr(<<"/info">>),
      JStr(<<"/scenarios">>)
    >>)>>
  >>)

\* not_found(): the document the handler hands to jsonify
not_found(e) ==
  JDict(<<
    <<<<"error">>, JStr(<<"Not", " ", "Found">>)>>,
    <<<<"message">>, JStr(<<"The", " ", "requested", " ", "endpoint", " ", "does", " ", "not", " ", "exist">>)>>,
    <<<<"available_endpoints">>, JList(<<
      JStr(<<"/">>),
      JStr(<<"/health">>),
      JStr(<<"/info">>),
      JStr(<<"/scenarios">>),
      JStr(<<"/docs">>)
    >>)>>
  >>)

\* internal_error(): the document the handler hands to jsonify
internal_error(e) ==
  JDict(<<
    <<<<"error">>, JStr(<<"Internal", " ", "Server", " ", "Error">>)>>,
    <<<<"message">>, JStr(e)>>
  >>)

\* the rules @app.route registers, each for GET (and the HEAD and OPTIONS
\* that Flask adds)
url_map == { <<"/">>, <<"/health">>, <<"/info">>, <<"/scenarios">>, <<"/docs">> }
\* Flask(__name__) also registers /static/<path:filename>, served from the
\* "static" folder beside the module; the repository has no such folder
static_rule(path) == Len(path) = 2 /\ path[1] = "/static/"
Paths == url_map \cup { <<"/sse">>, <<"/Health">>, <<"/health/">>, <<"/static/", "style.css">> }
Methods == { "GET", "POST" }
QueryStrings == { << >>, <<"scenario=cards-sca&mode=live">> }

\* werkzeug's response to a method the matched rule does not list
MethodNotAllowed ==
  <<"<!doctype", " ", "html>", "\n", "<title>405", " ", "Method", " ", "Not", " ",
    "Allowed</title>">>

\* a variant whose wrapper imports the tool module and resets its mode flag
\* from the environment at each request
handle_request_resetting_mode(method, path, query_string) ==
  /\ http' =
       IF path \notin url_map /\ ~static_rule(path)
         THEN [status |-> 404, method |-> method, path |-> path,
               query_string |-> query_string,
               body |-> jsonify(not_found(<<"404", " ", "Not", " ", "Found">>))]
       ELSE IF method # "GET"
         THEN [status |-> 405, method |-> method, path |-> path,
               query_string |-> query_string, body |-> MethodNotAllowed]
       ELSE IF static_rule(path)
         \* send_static_file finds no file and raises NotFound
         THEN [status |-> 404, method |-> method, path |-> path,
               query_string |-> query_string,
               body |-> jsonify(not_found(<<"404", " ", "Not", " ", "Found">>))]
       ELSE [status |-> 200, method |-> method, path |-> path,
             query_string |-> query_string,
             body |-> jsonify(CASE path \in { <<"/">>, <<"/health">> } -> health
                                [] path = <<"/info">> -> info
                                [] path = <<"/scenarios">> -> scenarios
                                [] path = <<"/docs">> -> docs)]
  /\ MOCK_MODE' = mock_flag(environ)
  /\ UNCHANGED <<environ, now, call, proc>>

\* one request: the rule is matched on the path alone and its view function
\* called, or the 404 error handler answers; no view function reads
\* request.args
handle_request(method, path, query_string) ==
  /\ http' =
       IF path \notin url_map /\ ~static_rule(path)
         THEN [status |-> 404, method |-> method, path |-> path,
               query_string |-> query_string,
               body |-> jsonify(not_found(<<"404", " ", "Not", " ", "Found">>))]
       ELSE IF method # "GET"
         THEN [status |-> 405, method |-> method, path |-> path,
               query_string |-> query_string, body |-> MethodNotAllowed]
       ELSE IF static_rule(path)
         \* send_static_file finds no file and raises NotFound
         THEN [status |-> 404, method |-> method, path |-> path,
               query_string |-> query_string,
               body |-> jsonify(not_found(<<"404", " ", "Not", " ", "Found">>))]
       ELSE [status |-> 200, method |-> method, path |-> path,
             query_string |-> query_string,
             body |-> jsonify(CASE path \in { <<"/">>, <<"/health">> } -> health
                                [] path = <<"/info">> -> info
                                [] path = <<"/scenarios">> -> scenarios
                                [] path = <<"/docs">> -> docs)]
  /\ UNCHANGED <<environ, MOCK_MODE, now, call, proc>>

\* --------------------------------------------------------------------------
\* The host: the clock, and code that changes the process environment
\* --------------------------------------------------------------------------
tick ==
  /\ now < MaxClock
  /\ now' = now + 1
  /\ UNCHANGED <<environ, MOCK_MODE, call, proc, http>>

\* os.environ["MULESOFT_MOCK_MODE"] is assigned or deleted after startup
setenv(v) ==
  /\ v # environ
  /\ environ' = v
  /\ UNCHANGED <<MOCK_MODE, now, call, proc, http>>

\* --------------------------------------------------------------------------
\* The tool server: a client calls the tools one call at a time
\* --------------------------------------------------------------------------
NoResponse == [status |-> 0, method |-> "", path |-> << >>, query_string |-> << >>,
               body |-> << >>]
NoFirst == [op |-> "", args |-> << >>, doc |-> JNull]

Init ==
  /\ environ \in StartEnvValues
  /\ MOCK_MODE = mock_flag(environ)
  /\ now = 0
  /\ call = [t \in Callers |-> NoCall]
  /\ proc = [t \in Callers |-> NoProc]
  /\ http = NoResponse
  /\ first = NoFirst
  /\ changed = {}

\* the record of earlier calls is not kept
untracked == UNCHANGED <<first, changed>>

Next ==
  \/ \E environment \in Environments :
       list_applications("c1", environment) /\ untracked
  \/ \E app_name \in AppNames, environment \in Environments :
       describe_application("c1", app_name, environment) /\ untracked
  \/ \E app_name \in AppNames, environment \in Environments, tail_lines \in TailLines :
       get_application_logs("c1", app_name, environment, tail_lines) /\ untracked
  \/ \E environment \in Environments :
       list_apis("c1", environment) /\ untracked
  \/ \E api_id \in ApiIds, period \in Periods, environment \in Environments :
       get_api_analytics("c1", api_id, period, environment) /\ untracked
  \/ \E api_id \in ApiIds, environment \in Environments :
       list_api_policies("c1", api_id, environment) /\ untracked
  \/ \E app_name \in AppNames, environment \in Environments :
       get_application_health("c1", app_name, environment) /\ untracked
  \/ \E app_name \in FewAppNames, worker_id \in WorkerIds, environment \in Environments :
       get_worker_diagnostics("c1", app_name, worker_id, environment) /\ untracked
  \/ \E app_name \in FewAppNames, environment \in Environments :
       restart_application("c1", app_name, environment) /\ untracked
  \/ \E app_name \in FewAppNames, artifact_path \in ArtifactPaths, environment \in Environments, workers \in WorkerCounts, worker_type \in WorkerTypes :
       deploy_application("c1", app_name, artifact_path, environment, workers, worker_type) /\ untracked
  \/ \E app_name \in FewAppNames, properties \in PropertyStrings, environment \in Environments :
       update_application_properties("c1", app_name, properties, environment) /\ untracked
  \/ \E app_name \in FewAppNames, workers \in WorkerCounts, environment \in Environments :
       scale_application("c1", app_name, workers, environment) /\ untracked
  \/ \E app_name \in FewAppNames, environment \in Environments :
       clear_application_queues("c1", app_name, environment) /\ untracked
  \/ \E environment \in Environments :
       get_active_alerts("c1", environment) /\ untracked
  \/ \E environment \in Environments :
       diagnose_cards_sca_issue("c1", environment) /\ untracked
  \/ \E app_name \in AppNames, environment \in Environments :
       diagnose_application_failure("c1", app_name, environment) /\ untracked
  \/ \E app_name \in AppNames, environment \in Environments :
       diagnose_performance_issue("c1", app_name, environment) /\ untracked
  \/ \E command \in Commands :
       execute_custom_anypoint_command("c1", command) /\ untracked
  \/ child_exits("c1") /\ untracked
  \/ subprocess_completed("c1") /\ untracked
  \/ deliver("c1") /\ untracked
  \/ tick /\ untracked

Spec == Init /\ [][Next]_vars


\* --------------------------------------------------------------------------
\* Mock mode, a sequence of calls: what the first call returned and which
\* state-changing tools were answered since are recorded beside the program
\* --------------------------------------------------------------------------
OperationalTools ==
  { "restart_application", "deploy_application", "update_application_properties",
    "scale_application", "clear_application_queues" }

SeqApp == <<"order-fulfillment-api">>
SeqEnvironment == <<"Production">>
SeqProperties == <<"{", "\"", "db.host", "\"", ":", " ", "\"", "db2", "\"", "}">>

\* the items of a returned document other than its "timestamp"
without_timestamp(doc) ==
  IF doc[1] # "dict" THEN doc
  ELSE LET keep(item) == item[1] # <<"timestamp">>
       IN  JDict(SelectSeq(doc[2], keep))

tracked(t) ==
  /\ first' = IF first.op = ""
              THEN [op |-> call'[t].op, args |-> call'[t].args,
                    doc |-> without_timestamp(json_loads(call'[t].result).val)]
              ELSE first
  /\ changed' = IF call'[t].op \in OperationalTools
                THEN changed \cup {call'[t].op}
                ELSE changed

InitSeq == Init /\ MOCK_MODE

NextSeq ==
  \/ list_applications("c1", SeqEnvironment) /\ tracked("c1")
  \/ describe_application("c1", SeqApp, SeqEnvironment) /\ tracked("c1")
  \/ get_application_health("c1", SeqApp, SeqEnvironment) /\ tracked("c1")
  \/ get_active_alerts("c1", SeqEnvironment) /\ tracked("c1")
  \/ diagnose_application_failure("c1", SeqApp, SeqEnvironment) /\ tracked("c1")
  \/ diagnose_performance_issue("c1", SeqApp, SeqEnvironment) /\ tracked("c1")
  \/ restart_application("c1", SeqApp, SeqEnvironment) /\ tracked("c1")
  \/ deploy_application("c1", SeqApp, <<"/tmp/app.jar">>, SeqEnvironment, 4, <<"MICRO">>)
       /\ tracked("c1")
  \/ update_application_properties("c1", SeqApp, SeqProperties, SeqEnvironment) /\ tracked("c1")
  \/ scale_application("c1", SeqApp, 4, SeqEnvironment) /\ tracked("c1")
  \/ clear_application_queues("c1", SeqApp, SeqEnvironment) /\ tracked("c1")
  \/ deliver("c1") /\ untracked
  \/ tick /\ untracked

SpecSeq == InitSeq /\ [][NextSeq]_vars

\* --------------------------------------------------------------------------
\* One host process environment read by the tool server and the HTTP server,
\* and changed after both have started
\* --------------------------------------------------------------------------
HostEnvValues == { unset, setto(<<"t", "r", "u", "e">>), setto(<<"f", "a", "l", "s", "e">>),
                   setto(<<"T", "R", "U", "E">>) }

NextHost ==
  \/ \E v \in HostEnvValues : setenv(v) /\ untracked
  \/ \E method \in Methods, path \in Paths, query_string \in QueryStrings :
       handle_request(method, path, query_string) /\ untracked
  \/ list_applications("c1", <<"Production">>) /\ untracked
  \/ restart_application("c1", <<"order-fulfillment-api">>, <<"Production">>) /\ untracked
  \/ \E command \in Commands : execute_custom_anypoint_command("c1", command) /\ untracked
  \/ child_exits("c1") /\ untracked
  \/ subprocess_completed("c1") /\ untracked
  \/ deliver("c1") /\ untracked

SpecHost == Init /\ [][NextHost]_vars

\* --------------------------------------------------------------------------
\* The tool server started with any value of the environment variable
\* --------------------------------------------------------------------------
InitEnv ==
  /\ environ \in EnvValues
  /\ MOCK_MODE = mock_flag(environ)
  /\ now = 0
  /\ call = [t \in Callers |-> NoCall]
  /\ proc = [t \in Callers |-> NoProc]
  /\ http = NoResponse
  /\ first = NoFirst
  /\ changed = {}

NextEnv ==
  \/ list_applications("c1", <<"Production">>) /\ untracked
  \/ \E command \in Commands : execute_custom_anypoint_command("c1", command) /\ untracked
  \/ \E path \in { <<"/">>, <<"/health">>, <<"/info">>, <<"/docs">> } :
       handle_request("GET", path, << >>) /\ untracked
  \/ child_exits("c1") /\ untracked
  \/ subprocess_completed("c1") /\ untracked
  \/ deliver("c1") /\ untracked

SpecEnv == InitEnv /\ [][NextEnv]_vars

\* --------------------------------------------------------------------------
\* The tool server with its one progress guarantee: subprocess.run returns
\* once the child has exited.  Nothing makes the child exit, and nothing
\* makes the client call or collect a result.
\* --------------------------------------------------------------------------
SpecFair == Spec /\ WF_vars(subprocess_completed("c1") /\ untracked)

\* --------------------------------------------------------------------------
\* Two clients call the tool server at once: the dispatcher runs each call
\* as a task of its own, and the calls' steps interleave in any order
\* --------------------------------------------------------------------------
ConcApps == { <<"order-fulfillment-api">>, <<"payment-processor">> }

NextConc ==
  \/ \E t \in Callers, app_name \in ConcApps :
       clear_application_queues(t, app_name, <<"Production">>) /\ untracked
  \/ \E t \in Callers, workers \in {1, 0} :
       scale_application(t, <<"order-fulfillment-api">>, workers, <<"Production">>) /\ untracked
  \/ \E t \in Callers : child_exits(t) /\ untracked
  \/ \E t \in Callers : subprocess_completed(t) /\ untracked
  \/ \E t \in Callers : deliver(t) /\ untracked
  \/ tick /\ untracked

SpecConc == Init /\ [][NextConc]_vars

\* --------------------------------------------------------------------------
\* The two entry points side by side on one host: requests to the HTTP
\* wrapper between the steps of tool calls, the environment variable changed
\* in between
\* --------------------------------------------------------------------------
ServedPaths == { <<"/health">>, <<"/scenarios">>, <<"/sse">> }

NextApart ==
  \/ \E v \in HostEnvValues : setenv(v) /\ untracked
  \/ \E method \in Methods, path \in ServedPaths :
       handle_request(method, path, << >>) /\ untracked
  \/ list_applications("c1", <<"Production">>) /\ untracked
  \/ restart_application("c1", <<"order-fulfillment-api">>, <<"Production">>) /\ untracked
  \/ child_exits("c1") /\ untracked
  \/ subprocess_completed("c1") /\ untracked
  \/ deliver("c1") /\ untracked

SpecApart == Init /\ [][NextApart]_vars

\* --------------------------------------------------------------------------
\* The tool catalogue: the functions registered with @mcp.tool() and the
\* parameters of each
\* --------------------------------------------------------------------------
Parameters(op) ==
  CASE op = "list_applications" -> { <<"environment">> }
    [] op = "describe_application" -> { <<"app_name">>, <<"environment">> }
    [] op = "get_application_logs" -> { <<"app_name">>, <<"environment">>, <<"tail_lines">> }
    [] op = "list_apis" -> { <<"environment">> }
    [] op = "get_api_analytics" -> { <<"api_id">>, <<"period">>, <<"environment">> }
    [] op = "list_api_policies" -> { <<"api_id">>, <<"environment">> }
    [] op = "get_application_health" -> { <<"app_name">>, <<"environment">> }
    [] op = "get_worker_diagnostics" -> { <<"app_name">>, <<"worker_id">>, <<"environment">> }
    [] op = "restart_application" -> { <<"app_name">>, <<"environment">> }
    [] op = "deploy_application" -> { <<"app_name">>, <<"artifact_path">>, <<"environment">>, <<"workers">>, <<"worker_type">> }
    [] op = "update_application_properties" -> { <<"app_name">>, <<"properties">>, <<"environment">> }
    [] op = "scale_application" -> { <<"app_name">>, <<"workers">>, <<"environment">> }
    [] op = "clear_application_queues" -> { <<"app_name">>, <<"environment">> }
    [] op = "get_active_alerts" -> { <<"environment">> }
    [] op = "diagnose_cards_sca_issue" -> { <<"environment">> }
    [] op = "diagnose_application_failure" -> { <<"app_name">>, <<"environment">> }
    [] op = "diagnose_performance_issue" -> { <<"app_name">>, <<"environment">> }
    [] op = "execute_custom_anypoint_command" -> { <<"command">> }

ToolCatalogue ==
  { "list_applications", "describe_application", "get_application_logs",
    "list_apis", "get_api_analytics", "list_api_policies",
    "get_application_health", "get_worker_diagnostics", "restart_application",
    "deploy_application", "update_application_properties", "scale_application",
    "clear_application_queues", "get_active_alerts", "diagnose_cards_sca_issue",
    "diagnose_application_failure", "diagnose_performance_issue", "execute_custom_anypoint_command" }

\* --------------------------------------------------------------------------
\* Reading a returned document
\* --------------------------------------------------------------------------
HasKey(doc, key) ==
  /\ doc[1] = "dict"
  /\ \E k \in 1..Len(doc[2]) : doc[2][k][1] = key

Lookup(doc, key) ==
  LET k == CHOOSE k \in 1..Len(doc[2]) : doc[2][k][1] = key
  IN  doc[2][k][2]

RECURSIVE HasNonFinite(_)
HasNonFinite(v) ==
  CASE v[1] = "float" -> v[2] \in NonFiniteWords
    [] v[1] = "list"  -> \E k \in 1..Len(v[2]) : HasNonFinite(v[2][k])
    [] v[1] = "dict"  -> \E k \in 1..Len(v[2]) : HasNonFinite(v[2][k][2])
    [] OTHER          -> FALSE

\* the text is a JSON text of RFC 8259: it parses, and without the bare
\* NaN, Infinity and -Infinity that Python's decoder accepts in addition
IsJson(s) ==
  LET decoded == json_loads(s)
  IN  decoded.ok /\ ~HasNonFinite(decoded.val)

\* the text parses to an object with the given key
IsJsonWith(s, key) ==
  IsJson(s) /\ HasKey(json_loads(s).val, key)

Returned(t) == call[t].pc = "returned"
Outstanding(t) == call[t].pc # "idle"

\* --------------------------------------------------------------------------
\* Properties
\* --------------------------------------------------------------------------

\* C1: no tool call ever ends with an exception reaching the caller; every
\* call that has ended has returned a string.
C1_NoFaultReachesCaller ==
  \A t \in Callers : call[t].pc # "raised"

\* C2: a call of update_application_properties whose properties string is
\* not valid JSON returns a JSON document with an "error" key and neither
\* raises nor runs the external command, in either mode and for any app_name
\* and environment.
C2_MalformedPropertiesRejected ==
  \A t \in Callers :
    (Outstanding(t) /\ call[t].op = "update_application_properties"
       /\ ~IsJson(call[t].args.properties))
    => /\ call[t].runs = 0
       /\ proc[t].state = "none"
       /\ Returned(t)
       /\ IsJsonWith(call[t].result, <<"error">>)

\* C3: in mock mode, update_application_properties with a valid JSON
\* properties string returns a document whose "updatedProperties" is the
\* parsed input, whose "status" is "UPDATING", and that has no top-level
\* "error" key.
C3_ValidPropertiesEchoed ==
  \A t \in Callers :
    (Returned(t) /\ call[t].op = "update_application_properties"
       /\ call[t].branch = "mock" /\ IsJson(call[t].args.properties))
    => LET doc == json_loads(call[t].result)
       IN  /\ doc.ok
           /\ HasKey(doc.val, <<"updatedProperties">>)
           /\ Lookup(doc.val, <<"updatedProperties">>) = json_loads(call[t].args.properties).val
           /\ HasKey(doc.val, <<"status">>)
           /\ Lookup(doc.val, <<"status">>) = JStr(<<"UPDATING">>)
           /\ ~HasKey(doc.val, <<"error">>)

C3_Witness ==
  \E t \in Callers :
    /\ Returned(t) /\ call[t].op = "update_application_properties"
    /\ call[t].branch = "mock" /\ IsJson(call[t].args.properties)
    /\ LET given == json_loads(call[t].args.properties).val
       IN  /\ given[1] = "dict" /\ Len(given[2]) = 2
           /\ Lookup(json_loads(call[t].result).val, <<"updatedProperties">>) = given

\* C4: every returned string is well formed: in mock mode, for every
\* operation and every argument value, the returned string parses as a JSON
\* document; in live mode it is what the external process wrote (its
\* standard output, or its standard error behind "Error: ").
C4_MockResultIsJson ==
  \A t \in Callers :
    Returned(t) =>
      /\ call[t].branch = "mock" => IsJson(call[t].result)
      /\ (call[t].branch = "live" /\ proc[t].state = "exited")
           => \/ call[t].result = proc[t].stdout
              \/ call[t].result = <<"Error", ":", " ">> \o proc[t].stderr

\* the mode a /health or / response reports
ReportedMock(response) ==
  Lookup(json_loads(response.body).val, <<"mode">>) = JStr(<<"MOCK">>)

ReportsMode(response) ==
  /\ response.status = 200
  /\ response.path \in { <<"/">>, <<"/health">> }

\* C5 (as stated): the mode is fixed once at startup: MOCK_MODE is what the
\* environment flag said at startup and never changes, every tool call takes
\* the branch MOCK_MODE selects whatever its arguments, and every HTTP
\* response that reports the mode reports MOCK_MODE, whatever has happened
\* to the environment variable since.
C5_ModeFixedForToolsAndHttp ==
  /\ \A t \in Callers :
       Outstanding(t) => (call[t].branch = "mock") = MOCK_MODE
  /\ ReportsMode(http) => ReportedMock(http) = MOCK_MODE

\* C5 (amended): the mode of the tool server is fixed once at startup:
\* MOCK_MODE is what the environment flag said at startup and never changes,
\* and every tool call takes the branch MOCK_MODE selects, whatever its
\* arguments and whatever has happened to the environment variable since.
\* The HTTP handlers read the environment variable at each request and
\* report its current value.
C5_ModeFixedForTools ==
  /\ MOCK_MODE = mock_flag(environ)
  /\ [][ /\ MOCK_MODE' = MOCK_MODE
         /\ \A t \in Callers :
              Outstanding(t)' => (call'[t].branch = "mock") = MOCK_MODE
         /\ ReportsMode(http') /\ http' # http
              => ReportedMock(http') = mock_flag(environ') ]_vars

C5_Witness ==
  /\ MOCK_MODE # mock_flag(environ)
  /\ Returned("c1") /\ call["c1"].branch = "mock"
  /\ ReportsMode(http) /\ ~ReportedMock(http)

\* C6: in mock mode no tool call starts an external process, for any
\* operation and any arguments; execute_custom_anypoint_command returns a
\* document that says the command was not executed and echoes the command.
C6_MockNeverSpawns ==
  \A t \in Callers :
    /\ MOCK_MODE => proc[t].state = "none" /\ call[t].runs = 0
    /\ (MOCK_MODE /\ Outstanding(t)) => Returned(t) /\ call[t].branch = "mock"
    /\ (MOCK_MODE /\ Returned(t) /\ call[t].op = "execute_custom_anypoint_command")
         => LET doc == json_loads(call[t].result)
            IN  /\ doc.ok
                /\ HasKey(doc.val, <<"message">>)
                /\ Lookup(doc.val, <<"message">>) =
                     JStr(<<"Mock", " ", "mode", " ", "enabled", " ", "-", " ",
                            "command", " ", "not", " ", "executed">>)
                /\ HasKey(doc.val, <<"command">>)
                /\ Lookup(doc.val, <<"command">>) =
                     JStr(call[t].args.command)

C6_Witness ==
  /\ MOCK_MODE
  /\ Returned("c1") /\ call["c1"].op = "execute_custom_anypoint_command"
  /\ call["c1"].args.command # << >>
  /\ proc["c1"].state = "none"

\* C7: in live mode, when the external command exits with status zero the
\* result is exactly its captured standard output; when it exits with a
\* non-zero status the result is "Error: " followed by exactly its captured
\* standard error, and the standard output is discarded.
C7_LiveResult ==
  \A t \in Callers :
    (Returned(t) /\ call[t].branch = "live" /\ proc[t].state = "exited")
    => /\ proc[t].returncode = 0 => call[t].result = proc[t].stdout
       /\ proc[t].returncode # 0
            => call[t].result = <<"Error", ":", " ">> \o proc[t].stderr

C7_Witness ==
  /\ Returned("c1") /\ call["c1"].branch = "live"
  /\ proc["c1"].state = "exited" /\ proc["c1"].returncode # 0
  /\ proc["c1"].stdout # << >> /\ proc["c1"].stderr # << >>
  /\ call["c1"].result = <<"Error", ":", " ">> \o proc["c1"].stderr

\* C8: a live-mode call is one synchronous round trip: it enters
\* subprocess.run exactly once, the process is never started a second time
\* within the call whether it succeeded or failed, the caller stays blocked
\* while the process runs, and no result is returned before it has ended.
C8_SingleRoundTrip ==
  /\ \A t \in Callers :
       /\ call[t].branch = "live" => call[t].runs = 1
       /\ proc[t].state = "running" => call[t].pc = "blocked"
       /\ (Returned(t) /\ call[t].branch = "live")
            => proc[t].state \in {"exited", "not_started"}
  /\ [][ \A t \in Callers :
           (proc[t].state \in {"exited", "not_started"} /\ Outstanding(t)')
             => proc'[t].state = proc[t].state ]_vars

C8_Witness ==
  /\ Returned("c1") /\ call["c1"].branch = "live" /\ call["c1"].runs = 1
  /\ proc["c1"].state = "exited" /\ proc["c1"].returncode # 0
  /\ call["c1"].op = "clear_application_queues"

\* C9: calls are stateless: after any sequence of mock-mode calls, the
\* state-changing ones included, a call returns the document, apart from its
\* timestamp, that the same call returned as the first call of the process;
\* order-fulfillment-api is still reported FAILED after its properties were
\* updated and it was restarted, and scale_application always reports
\* currentWorkers 2.
C9_Stateless ==
  \A t \in Callers :
    Returned(t) =>
      LET doc == json_loads(call[t].result).val
      IN  /\ (first.op = call[t].op /\ first.args = call[t].args)
               => without_timestamp(doc) = first.doc
          /\ call[t].op = "describe_application"
               => Lookup(Lookup(doc, <<"application">>), <<"status">>) = JStr(<<"FAILED">>)
          /\ call[t].op = "scale_application"
               => Lookup(doc, <<"currentWorkers">>) = JInt(2)

C9_Witness ==
  /\ Returned("c1") /\ call["c1"].op = "describe_application"
  /\ first.op = "describe_application" /\ first.args = call["c1"].args
  /\ changed = OperationalTools
  /\ now > 0
  /\ Lookup(Lookup(json_loads(call["c1"].result).val, <<"application">>), <<"status">>)
       = JStr(<<"FAILED">>)

\* --------------------------------------------------------------------------
\* The operations that choose their literal by a name
\* --------------------------------------------------------------------------
BranchingTools ==
  { "describe_application", "get_application_logs", "get_application_health",
    "diagnose_application_failure", "diagnose_performance_issue", "get_api_analytics" }

\* the names an operation has a literal of its own for
Distinguished(op) ==
  CASE op = "describe_application" -> { <<"order-fulfillment-api">> }
    [] op = "get_application_logs" ->
         { <<"oauth-authentication-experience-api">>, <<"cards-sca-business-api">>,
           <<"order-fulfillment-api">>, <<"payment-processor">> }
    [] op = "get_application_health" -> { <<"payment-processor">>, <<"order-fulfillment-api">> }
    [] op = "diagnose_application_failure" -> { <<"order-fulfillment-api">> }
    [] op = "diagnose_performance_issue" -> { <<"payment-processor">> }
    [] op = "get_api_analytics" -> { <<"12346">> }

\* the name a call of a branching operation chooses by
ChosenBy(c) ==
  IF c.op = "get_api_analytics" THEN c.args.api_id ELSE c.args.app_name

\* a document without the fields that echo the call's arguments or the clock
EchoKeys ==
  { <<"applicationName">>, <<"environment">>, <<"timestamp">>, <<"apiId">>, <<"period">> }
ApplicationEchoKeys == { <<"name">>, <<"environment">>, <<"domain">> }

without_echoes(doc) ==
  LET top(item) == item[1] \notin EchoKeys
      inner(item) == item[1] \notin ApplicationEchoKeys
      open(item) == IF item[1] = <<"application">> /\ item[2][1] = "dict"
                    THEN <<item[1], JDict(SelectSeq(item[2][2], inner))>>
                    ELSE item
      kept == SelectSeq(doc[2], top)
  IN  JDict([k \in 1..Len(kept) |-> open(kept[k])])

\* what the operation returns for a name, the other arguments as in call c
MockOf(c, name) ==
  CASE c.op = "describe_application" -> describe_application_mock(name, c.args.environment)
    [] c.op = "get_application_logs" ->
         get_application_logs_mock(name, c.args.environment, c.args.tail_lines)
    [] c.op = "get_application_health" -> get_application_health_mock(name, c.args.environment)
    [] c.op = "diagnose_application_failure" ->
         diagnose_application_failure_mock(name, c.args.environment)
    [] c.op = "diagnose_performance_issue" ->
         diagnose_performance_issue_mock(name, c.args.environment)
    [] c.op = "get_api_analytics" ->
         get_api_analytics_mock(name, c.args.period, c.args.environment)

LiteralOf(c, name) == without_echoes(json_loads(MockOf(c, name)).val)

\* the literal reports a failure or a degradation
Flavoured(op, literal) ==
  CASE op = "describe_application" ->
         Lookup(Lookup(literal, <<"application">>), <<"status">>) = JStr(<<"FAILED">>)
    [] op = "get_application_health" ->
         Lookup(literal, <<"overallHealth">>) \in { JStr(<<"DEGRADED">>), JStr(<<"CRITICAL">>) }
    [] op = "diagnose_application_failure" -> HasKey(literal, <<"diagnosis">>)
    [] op = "diagnose_performance_issue" ->
         Lookup(Lookup(literal, <<"performanceAnalysis">>), <<"overallRating">>) = JStr(<<"POOR">>)
    [] op = "get_api_analytics" -> HasKey(literal, <<"alerts">>)
    [] op = "get_application_logs" -> HasKey(literal, <<"logLines">>)

\* a name no operation distinguishes
OrdinaryName == <<"inventory-service">>

\* C10: in mock mode an operation that branches on a name is a total
\* function of the name with one default case: each distinguished name
\* yields a literal of its own, different from the default and from the
\* other distinguished names' literals, and every other name, the empty
\* string and names differing only in letter case included, yields the
\* default literal, which differs only in the echoed arguments.
C10_OneDefaultCase ==
  \A t \in Callers :
    (Returned(t) /\ call[t].branch = "mock" /\ call[t].op \in BranchingTools)
    => LET c == call[t]
           decoded == json_loads(c.result)
           literal == without_echoes(decoded.val)
       IN  /\ decoded.ok /\ decoded.val[1] = "dict"
           /\ IF ChosenBy(c) \in Distinguished(c.op)
              THEN /\ literal # LiteralOf(c, OrdinaryName)
                   /\ Flavoured(c.op, literal)
                   /\ \A other \in Distinguished(c.op) \ {ChosenBy(c)} :
                        literal # LiteralOf(c, other)
              ELSE literal = LiteralOf(c, OrdinaryName)

C10_Witness ==
  /\ Returned("c1") /\ call["c1"].branch = "mock"
  /\ call["c1"].op = "describe_application"
  /\ call["c1"].args.app_name = <<"Order-Fulfillment-API">>
  /\ Lookup(Lookup(json_loads(call["c1"].result).val, <<"application">>), <<"status">>)
       = JStr(<<"STARTED">>)

\* C11: in mock mode get_application_health reports overallHealth
\* "DEGRADED" exactly for app_name "payment-processor", "CRITICAL" exactly
\* for "order-fulfillment-api" and "HEALTHY" for every other app_name, and
\* the applicationName and environment of the result are the arguments.
C11_OverallHealth ==
  \A t \in Callers :
    (Returned(t) /\ call[t].branch = "mock" /\ call[t].op = "get_application_health")
    => LET decoded == json_loads(call[t].result)
           app_name == call[t].args.app_name
       IN  /\ decoded.ok
           /\ HasKey(decoded.val, <<"overallHealth">>)
           /\ Lookup(decoded.val, <<"overallHealth">>) =
                JStr(IF app_name = <<"payment-processor">> THEN <<"DEGRADED">>
                     ELSE IF app_name = <<"order-fulfillment-api">> THEN <<"CRITICAL">>
                     ELSE <<"HEALTHY">>)
           /\ HasKey(decoded.val, <<"applicationName">>)
           /\ Lookup(decoded.val, <<"applicationName">>) = JStr(app_name)
           /\ HasKey(decoded.val, <<"environment">>)
           /\ Lookup(decoded.val, <<"environment">>) = JStr(call[t].args.environment)

C11_Witness ==
  /\ Returned("c1") /\ call["c1"].branch = "mock"
  /\ call["c1"].op = "get_application_health"
  /\ call["c1"].args.app_name = <<"payment-processor">>
  /\ call["c1"].args.environment # <<"Production">>
  /\ Lookup(json_loads(call["c1"].result).val, <<"overallHealth">>) = JStr(<<"DEGRADED">>)

ErrorFields == { <<"errorMessage">>, <<"errorDetails">>, <<"lastDeployment">> }

\* C12: in mock mode describe_application returns status "FAILED" together
\* with errorMessage, errorDetails and lastDeployment if and only if
\* app_name is "order-fulfillment-api"; for every other app_name it returns
\* status "STARTED" and none of the three fields.
C12_FailedOnlyOrderFulfillment ==
  \A t \in Callers :
    (Returned(t) /\ call[t].branch = "mock" /\ call[t].op = "describe_application")
    => LET decoded == json_loads(call[t].result)
           application == Lookup(decoded.val, <<"application">>)
       IN  /\ decoded.ok
           /\ HasKey(decoded.val, <<"application">>)
           /\ HasKey(application, <<"status">>)
           /\ IF call[t].args.app_name = <<"order-fulfillment-api">>
              THEN /\ Lookup(application, <<"status">>) = JStr(<<"FAILED">>)
                   /\ \A key \in ErrorFields : HasKey(application, key)
              ELSE /\ Lookup(application, <<"status">>) = JStr(<<"STARTED">>)
                   /\ \A key \in ErrorFields : ~HasKey(application, key)

C12_Witness ==
  /\ Returned("c1") /\ call["c1"].branch = "mock"
  /\ call["c1"].op = "describe_application"
  /\ call["c1"].args.app_name = <<"order-fulfillment-api">>
  /\ \A key \in ErrorFields :
       HasKey(Lookup(json_loads(call["c1"].result).val, <<"application">>), key)

\* a response has been sent
Answered == http.status # 0

\* the values of a decoded list, as a set
Elements(list) == { list[2][k] : k \in 1..Len(list[2]) }

\* the keys of a decoded object, as a set
Keys(doc) == { doc[2][k][1] : k \in 1..Len(doc[2]) }

DocumentedPaths == { <<"/">>, <<"/health">>, <<"/info">>, <<"/scenarios">>, <<"/docs">> }

\* the 404 document that lists the five documented paths
NotFoundBody(response) ==
  /\ response.status = 404
  /\ IsJsonWith(response.body, <<"available_endpoints">>)
  /\ LET listed == Lookup(json_loads(response.body).val, <<"available_endpoints">>)
     IN  /\ listed[1] = "list"
         /\ Len(listed[2]) = Cardinality(DocumentedPaths)
         /\ Elements(listed) = { JStr(path) : path \in DocumentedPaths }

C14_HealthShape ==
  (http.status = 200 /\ http.path \in { <<"/">>, <<"/health">> }) =>
    LET decoded == json_loads(http.body)
    IN  /\ decoded.ok /\ decoded.val[1] = "dict"
        /\ Len(decoded.val[2]) = 5
        /\ Keys(decoded.val) = { <<"status">>, <<"service">>, <<"mode">>,
                                 <<"timestamp">>, <<"version">> }
        /\ Lookup(decoded.val, <<"status">>) = JStr(<<"healthy">>)

C14_Witness ==
  /\ http.status = 200 /\ http.path = <<"/">>
  /\ ~mock_flag(environ)
  /\ Lookup(json_loads(http.body).val, <<"mode">>) = JStr(<<"LIVE">>)
  /\ Keys(json_loads(http.body).val) = { <<"status">>, <<"service">>, <<"mode">>,
                                        <<"timestamp">>, <<"version">> }

\* C15: GET /scenarios returns the same catalogue of exactly three entries
\* (cards-sca, order-fulfillment, payment-performance) at every request,
\* whatever the query string, the mode flag and the requests served before:
\* a body sent earlier is the body the handler would send now.
C15_ScenariosConstant ==
  (Answered /\ http.method = "GET" /\ http.path = <<"/scenarios">>) =>
    LET decoded == json_loads(http.body)
        catalogue == Lookup(decoded.val, <<"scenarios">>)
    IN  /\ http.status = 200
        /\ decoded.ok /\ HasKey(decoded.val, <<"scenarios">>)
        /\ catalogue[1] = "dict" /\ Len(catalogue[2]) = 3
        /\ Keys(catalogue) = { <<"cards-sca">>, <<"order-fulfillment">>,
                               <<"payment-performance">> }
        /\ http.body = jsonify(scenarios)

C15_Witness ==
  /\ http.status = 200 /\ http.path = <<"/scenarios">>
  /\ http.query_string # << >>
  /\ ~mock_flag(environ) /\ MOCK_MODE
  /\ Len(Lookup(json_loads(http.body).val, <<"scenarios">>)[2]) = 3

\* C16: get_application_logs returns no more log lines than asked for: the
\* logLines list of the result has at most tail_lines entries, for every
\* app_name.
C16_AtMostTailLines ==
  \A t \in Callers :
    (Returned(t) /\ call[t].branch = "mock" /\ call[t].op = "get_application_logs")
    => LET decoded == json_loads(call[t].result)
       IN  /\ decoded.ok
           /\ HasKey(decoded.val, <<"logLines">>)
           /\ Len(Lookup(decoded.val, <<"logLines">>)[2]) <= call[t].args.tail_lines

\* the spellings of "true" in upper and lower case letters
TrueSpellings ==
  { <<a, b, c, d>> : a \in {"t", "T"}, b \in {"r", "R"}, c \in {"u", "U"}, d \in {"e", "E"} }

\* C17: the process is in mock mode if and only if MULESOFT_MOCK_MODE is
\* unset or is "true" in any letter case; every other value ("false", "0",
\* "1", "yes", the empty string, " true") puts it in live mode, and the
\* tool calls take the branch of that mode.
C17_MockIffUnsetOrTrue ==
  /\ MOCK_MODE = (~environ.set \/ environ.val \in TrueSpellings)
  /\ \A t \in Callers :
       Outstanding(t) =>
         (call[t].branch = "mock") = (~environ.set \/ environ.val \in TrueSpellings)

C17_Witness ==
  /\ environ = setto(<<" ", "t", "r", "u", "e">>)
  /\ ~MOCK_MODE
  /\ Outstanding("c1") /\ call["c1"].branch = "live"

\* C18: a mock-mode call always terminates (it returns without waiting for
\* anything); a live-mode call terminates if and only if the process it
\* started terminates: once the process has exited the call returns, and
\* while the process runs the call stays blocked, for ever if the process
\* never exits.
C18_TerminatesWithProcess ==
  /\ \A t \in Callers :
       /\ []((MOCK_MODE /\ Outstanding(t)) => Returned(t))
       /\ (call[t].pc = "blocked" /\ proc[t].state = "exited") ~> Returned(t)
       /\ <>[](proc[t].state = "running") => <>[](call[t].pc = "blocked")
  /\ [][\A t \in Callers :
          (call[t].pc = "blocked" /\ proc[t].state = "running")
            => (call'[t].pc = "blocked" /\ proc'[t].state \in {"running", "exited"})]_vars

C18_Witness ==
  /\ call["c1"].pc = "blocked" /\ call["c1"].op = "get_application_health"
  /\ proc["c1"].state = "exited" /\ proc["c1"].returncode # 0

\* the text of an argument as it would stand in an argument vector
ArgText(name, value) ==
  IF name \in {"tail_lines", "workers"} THEN str(value) ELSE value

\* C19: in live mode the argument vector is derived from the parameters:
\* for every operation with named parameters, the vector starts with
\* "anypoint-cli" and every parameter of the call, worker_id of
\* get_worker_diagnostics and tail_lines of get_application_logs included,
\* is one of its elements after the verb and sub-verb prefix.
C19_EveryParameterInArgv ==
  \A t \in Callers :
    (call[t].branch = "live" /\ proc[t].state \in {"running", "exited"}
       /\ call[t].op # "execute_custom_anypoint_command")
    => /\ proc[t].argv[1] = <<"anypoint-cli">>
       /\ \A name \in DOMAIN call[t].args :
            \E k \in 3..Len(proc[t].argv) :
              proc[t].argv[k] = ArgText(name, call[t].args[name])

\* the positions where a word of s begins and ends: a word is a maximal run
\* of atoms that are not whitespace
WordStarts(s) ==
  { i \in 1..Len(s) : s[i] \notin WHITESPACE /\ (i = 1 \/ s[i - 1] \in WHITESPACE) }
WordEnds(s) ==
  { i \in 1..Len(s) : s[i] \notin WHITESPACE /\ (i = Len(s) \/ s[i + 1] \in WHITESPACE) }

\* the k-th smallest member of a set of numbers
Kth(S, k) == CHOOSE x \in S : Cardinality({ y \in S : y < x }) = k - 1

\* the words of s in order
Words(s) ==
  [k \in 1..Cardinality(WordStarts(s)) |->
     SubSeq(s, Kth(WordStarts(s), k), Kth(WordEnds(s), k))]

\* C20: in live mode execute_custom_anypoint_command runs a vector whose
\* first element is "anypoint-cli" and whose other elements are the
\* whitespace-separated words of the command string in order, quotes being
\* ordinary characters; for every command string, the empty one included,
\* and for every operation, no executable but anypoint-cli is started.
C20_CustomCommandArgv ==
  \A t \in Callers :
    call[t].branch = "live" =>
      /\ Len(proc[t].argv) >= 1
      /\ proc[t].argv[1] = <<"anypoint-cli">>
      /\ call[t].op = "execute_custom_anypoint_command"
           => proc[t].argv = << <<"anypoint-cli">> >> \o Words(call[t].args.command)

C20_Witness ==
  /\ call["c1"].branch = "live" /\ call["c1"].op = "execute_custom_anypoint_command"
  /\ proc["c1"].state = "exited"
  /\ \E k \in 1..Len(call["c1"].args.command) : call["c1"].args.command[k] = "\""
  /\ Len(proc["c1"].argv) = 6
  /\ proc["c1"].argv[5] = <<"\"", "my">>
  /\ proc["c1"].argv[6] = <<"asset", "\"">>

\* --------------------------------------------------------------------------
\* Concurrent calls
\* --------------------------------------------------------------------------
\* the text a call returns in mock mode when no other call is in progress
AloneMock(c) ==
  CASE c.op = "clear_application_queues" ->
         clear_application_queues_mock(c.args.app_name, c.args.environment)
    [] c.op = "scale_application" ->
         scale_application_mock(c.args.app_name, c.args.workers, c.args.environment)

\* the command line a call runs in live mode when no other call is in progress
AloneArgv(c) ==
  CASE c.op = "clear_application_queues" ->
         <<<<"anypoint-cli">>, <<"runtime-mgr">>, <<"cloudhub-application">>,
           <<"clear-queues">>, c.args.app_name, <<"--environment">>, c.args.environment>>
    [] c.op = "scale_application" ->
         <<<<"anypoint-cli">>, <<"runtime-mgr">>, <<"cloudhub-application">>,
           <<"modify">>, c.args.app_name, <<"--workers">>, str(c.args.workers),
           <<"--environment">>, c.args.environment>>

\* C21: tool calls do not interfere: whatever the interleaving of two
\* clients' calls, a step of one call changes nothing of the other call or of
\* its child process, the mode flag is never written, and each call returns
\* what it returns alone: in mock mode the document of its own arguments
\* (apart from the timestamp), in live mode the output of the child it
\* started itself with the command line of its own arguments.
C21_NoInterference ==
  /\ [](\A t \in Callers :
          Returned(t) =>
            IF call[t].branch = "mock"
            THEN without_timestamp(json_loads(call[t].result).val)
                   = without_timestamp(json_loads(AloneMock(call[t])).val)
            ELSE /\ proc[t].argv = AloneArgv(call[t])
                 /\ proc[t].state = "exited"
                 /\ call[t].result
                      = live_result(proc[t].returncode, proc[t].stdout, proc[t].stderr))
  /\ [][/\ MOCK_MODE' = MOCK_MODE
        /\ \A t \in Callers :
             (call'[t] # call[t] \/ proc'[t] # proc[t])
             => \A u \in Callers \ {t} : call'[u] = call[u] /\ proc'[u] = proc[u]]_vars

C21_Witness ==
  /\ Returned("c1") /\ Returned("c2")
  /\ call["c1"].branch = "mock"
  /\ call["c1"].op = "clear_application_queues" /\ call["c2"].op = "clear_application_queues"
  /\ call["c1"].args.app_name # call["c2"].args.app_name
  /\ call["c1"].result # call["c2"].result
  /\ now > 0

\* --------------------------------------------------------------------------
\* The two entry points
\* --------------------------------------------------------------------------
\* the text a tool call returns in mock mode when no HTTP request was served
UnservedMock(c) ==
  CASE c.op = "list_applications" -> list_applications_mock(c.args.environment)
    [] c.op = "restart_application" ->
         restart_application_mock(c.args.app_name, c.args.environment)

\* C22: the HTTP wrapper and the tool dispatcher do not interact: serving a
\* request, in mock or in live mode, changes no tool call, starts no process
\* and leaves the mode flag as it is; no tool call changes an HTTP response;
\* and whatever requests were served, a tool call takes the branch the mode
\* flag selects and returns, in mock mode, the document of its arguments
\* (apart from the timestamp) and, in live mode, the output of its own child.
C22_EntryPointsApart ==
  /\ [][/\ http' # http => (call' = call /\ proc' = proc /\ MOCK_MODE' = MOCK_MODE)
        /\ (call' # call \/ proc' # proc) => http' = http]_vars
  /\ [](\A t \in Callers :
          Returned(t) =>
            IF MOCK_MODE
            THEN /\ call[t].branch = "mock" /\ proc[t].state = "none"
                 /\ without_timestamp(json_loads(call[t].result).val)
                      = without_timestamp(json_loads(UnservedMock(call[t])).val)
            ELSE /\ call[t].branch = "live"
                 /\ proc[t].state = "exited"
                      => call[t].result
                           = live_result(proc[t].returncode, proc[t].stdout, proc[t].stderr))

C22_Witness ==
  /\ Returned("c1") /\ call["c1"].branch = "live" /\ proc["c1"].state = "exited"
  /\ http.status = 200 /\ http.path = <<"/scenarios">>
  /\ mock_flag(environ)

\* --------------------------------------------------------------------------
\* Argument values
\* --------------------------------------------------------------------------
\* the top-level fields of an operation's document that echo an argument
EchoFields(c) ==
  LET named == { <<<<"applicationName">>, JStr(c.args.app_name)>>,
                 <<<<"environment">>, JStr(c.args.environment)>> }
  IN
  CASE c.op \in { "get_application_logs", "get_application_health", "restart_application",
                  "update_application_properties", "clear_application_queues",
                  "diagnose_application_failure", "diagnose_performance_issue" } -> named
    [] c.op = "get_worker_diagnostics" ->
         named \cup { <<<<"workerId">>, JStr(c.args.worker_id)>> }
    [] c.op = "deploy_application" ->
         named \cup { <<<<"workers">>, JInt(c.args.workers)>>,
                      <<<<"workerType">>, JStr(c.args.worker_type)>> }
    [] c.op = "scale_application" ->
         named \cup { <<<<"targetWorkers">>, JInt(c.args.workers)>> }
    [] c.op = "get_api_analytics" ->
         { <<<<"apiId">>, JStr(c.args.api_id)>>, <<<<"period">>, JStr(c.args.period)>> }
    [] c.op = "list_api_policies" -> { <<<<"apiId">>, JStr(c.args.api_id)>> }
    [] c.op = "get_active_alerts" -> { <<<<"environment">>, JStr(c.args.environment)>> }
    [] c.op = "execute_custom_anypoint_command" -> { <<<<"command">>, JStr(c.args.command)>> }
    [] OTHER -> {}

\* the fields that echo an argument inside the document
NestedEchoes(c, doc) ==
  CASE c.op = "describe_application" ->
         LET application == Lookup(doc, <<"application">>)
         IN  /\ Lookup(application, <<"name">>) = JStr(c.args.app_name)
             /\ Lookup(application, <<"environment">>) = JStr(c.args.environment)
    [] c.op = "list_applications" ->
         \A entry \in Elements(Lookup(doc, <<"applications">>)) :
           Lookup(entry, <<"environment">>) = JStr(c.args.environment)
    [] c.op = "list_apis" ->
         \A entry \in Elements(Lookup(doc, <<"apis">>)) :
           Lookup(entry, <<"environment">>) = JStr(c.args.environment)
    [] OTHER -> TRUE

\* C23: in mock mode no operation rejects an argument value: every call,
\* except update_application_properties with properties that are not a JSON
\* text, returns for any strings and integers (an unknown period, an unknown
\* worker_type, zero or negative workers or tail_lines) its document without
\* an "error" field, with each argument that has a field of its own echoed
\* there unchanged.
C23_NoArgumentRejected ==
  \A t \in Callers :
    (/\ Returned(t) /\ call[t].branch = "mock"
     /\ call[t].op = "update_application_properties" => IsJson(call[t].args.properties))
    => LET c == call[t]
           decoded == json_loads(c.result)
       IN  /\ decoded.ok /\ decoded.val[1] = "dict"
           /\ ~HasKey(decoded.val, <<"error">>)
           /\ \A echo \in EchoFields(c) :
                /\ HasKey(decoded.val, echo[1])
                /\ Lookup(decoded.val, echo[1]) = echo[2]
           /\ NestedEchoes(c, decoded.val)

C23_Witness ==
  /\ Returned("c1") /\ call["c1"].branch = "mock"
  /\ call["c1"].op = "deploy_application"
  /\ call["c1"].args.workers = -1 /\ call["c1"].args.worker_type = <<"HUGE">>
  /\ call["c1"].args.app_name = <<"my", "\"", "app", "\\", "1">>
  /\ Lookup(json_loads(call["c1"].result).val, <<"workers">>) = JInt(-1)

\* --------------------------------------------------------------------------
\* Suggested remediation
\* --------------------------------------------------------------------------
\* the name of a catalogued operation as the text of a "command" field
CommandOf(step) ==
  CHOOSE op \in ToolCatalogue \cup {""} :
    IF \E known \in ToolCatalogue : Lookup(step, <<"command">>) = JStr(<<known>>)
    THEN Lookup(step, <<"command">>) = JStr(<<op>>)
    ELSE op = ""

\* C24: the remediation steps that diagnose_application_failure returns for
\* "order-fulfillment-api" are suggestions only: the call itself starts no
\* process and makes no other call, each step's command names an operation
\* of the tool catalogue, each step's parameters are parameters of that
\* operation, and the suggested properties string is a JSON text that
\* update_application_properties answers with its normal document, the
\* parsed properties echoed, not with its error document.
C24_RemediationSuggestedOnly ==
  \A t \in Callers :
    (/\ Returned(t) /\ call[t].branch = "mock"
     /\ call[t].op = "diagnose_application_failure"
     /\ call[t].args.app_name = <<"order-fulfillment-api">>)
    => LET doc == json_loads(call[t].result).val
           steps == Lookup(doc, <<"remediationSteps">>)
       IN  /\ call[t].runs = 0 /\ proc[t] = NoProc
           /\ \A u \in Callers \ {t} : call[u] = NoCall /\ proc[u] = NoProc
           /\ steps[1] = "list" /\ Len(steps[2]) = 3
           /\ \A step \in Elements(steps) :
                /\ CommandOf(step) \in ToolCatalogue
                /\ Keys(Lookup(step, <<"parameters">>)) \subseteq Parameters(CommandOf(step))
                /\ HasKey(Lookup(step, <<"parameters">>), <<"properties">>)
                     => LET properties == Lookup(Lookup(step, <<"parameters">>), <<"properties">>)[2]
                            answer == json_loads(update_application_properties_mock(
                                        call[t].args.app_name, properties,
                                        call[t].args.environment)).val
                        IN  /\ CommandOf(step) = "update_application_properties"
                            /\ IsJson(properties)
                            /\ ~HasKey(answer, <<"error">>)
                            /\ Lookup(answer, <<"updatedProperties">>) = json_loads(properties).val
           /\ \E step \in Elements(steps) :
                HasKey(Lookup(step, <<"parameters">>), <<"properties">>)

C24_Witness ==
  /\ Returned("c1") /\ call["c1"].branch = "mock"
  /\ call["c1"].op = "diagnose_application_failure"
  /\ call["c1"].args.app_name = <<"order-fulfillment-api">>
  /\ call["c1"].args.environment = <<"Staging", " ", "\"", "blue", "\"">>
  /\ Len(Lookup(json_loads(call["c1"].result).val, <<"remediationSteps">>)[2]) = 3

\* --------------------------------------------------------------------------
\* The catalogue of applications
\* --------------------------------------------------------------------------
\* the scenario entries that GET /info lists
Advertised == Elements(Lookup(json_loads(jsonify(info)).val, <<"scenarios">>))

\* C25: the mock catalogue is consistent across the entry points: every
\* application that /info advertises as FAILED or DEGRADED gets from
\* get_application_health an overallHealth other than "HEALTHY", and every
\* application advertised as HEALTHY gets "HEALTHY".
C25_CatalogueConsistent ==
  \A t \in Callers :
    (Returned(t) /\ call[t].branch = "mock" /\ call[t].op = "get_application_health")
    => LET overallHealth == Lookup(json_loads(call[t].result).val, <<"overallHealth">>)
       IN  \A entry \in Advertised :
             Lookup(entry, <<"name">>) = JStr(call[t].args.app_name)
             => IF Lookup(entry, <<"status">>) \in { JStr(<<"FAILED">>), JStr(<<"DEGRADED">>) }
                THEN overallHealth # JStr(<<"HEALTHY">>)
                ELSE /\ Lookup(entry, <<"status">>) = JStr(<<"HEALTHY">>)
                     /\ overallHealth = JStr(<<"HEALTHY">>)

\* --------------------------------------------------------------------------
\* The mode as the two entry points see it
\* --------------------------------------------------------------------------
\* C26: started with one and the same value of MULESOFT_MOCK_MODE, the two
\* entry points agree on the mode: / and /health report "MOCK", and /docs
\* reports demo_mode.enabled true, exactly when the tool server's MOCK_MODE
\* is true (otherwise "LIVE" and false), and the tool calls take the branch
\* of that mode; for every value of the variable: unset, "true" in mixed
\* case, "false", and values that are neither.
C26_EntryPointsAgree ==
  LET body == json_loads(http.body).val
  IN  /\ (http.status = 200 /\ http.path \in { <<"/">>, <<"/health">> })
           => Lookup(body, <<"mode">>)
                = IF MOCK_MODE THEN JStr(<<"MOCK">>) ELSE JStr(<<"LIVE">>)
      /\ (http.status = 200 /\ http.path = <<"/docs">>)
           => Lookup(Lookup(body, <<"demo_mode">>), <<"enabled">>) = JBool(MOCK_MODE)
      /\ \A t \in Callers :
           (Outstanding(t) /\ http.status = 200 /\ http.path = <<"/docs">>)
           => (call[t].branch = "mock")
                = (Lookup(Lookup(body, <<"demo_mode">>), <<"enabled">>) = JBool(TRUE))

C26_Witness ==
  /\ environ = setto(<<"t", "R", "u", "E">>)
  /\ http.status = 200 /\ http.path = <<"/docs">>
  /\ Lookup(Lookup(json_loads(http.body).val, <<"demo_mode">>), <<"enabled">>) = JBool(TRUE)
  /\ Returned("c1") /\ call["c1"].branch = "mock"

\* --------------------------------------------------------------------------
\* The responses of the HTTP wrapper
\* --------------------------------------------------------------------------
\* C27: every response of the HTTP wrapper has status 200, 404 or 500 and a
\* body that is a JSON object, for every request path and every request
\* method, a method other than GET sent to a documented path included.
C27_EveryResponseStructured ==
  Answered =>
    /\ http.status \in {200, 404, 500}
    /\ IsJson(http.body)
    /\ json_loads(http.body).val[1] = "dict"

\* --------------------------------------------------------------------------
\* The counts of the canned listings
\* --------------------------------------------------------------------------
\* how many alerts of the list have the severity
Severity(alerts, severity) ==
  Cardinality({ k \in 1..Len(alerts[2]) :
                  Lookup(alerts[2][k], <<"severity">>) = JStr(severity) })

\* C28: the summary counts of the canned listings equal what they
\* summarise, for every environment argument: in get_active_alerts
\* summary.total is the number of alerts and summary.critical, high, medium
\* and low are the numbers of alerts of each severity; in list_applications
\* total is the number of application entries, and every entry's environment
\* is the environment argument.
C28_CountsMatch ==
  \A t \in Callers :
    (Returned(t) /\ call[t].branch = "mock") =>
      LET doc == json_loads(call[t].result).val
      IN  /\ call[t].op = "get_active_alerts" =>
               LET alerts == Lookup(doc, <<"alerts">>)
                   summary == Lookup(doc, <<"summary">>)
               IN  /\ alerts[1] = "list"
                   /\ Lookup(summary, <<"total">>) = JInt(Len(alerts[2]))
                   /\ Lookup(summary, <<"critical">>) = JInt(Severity(alerts, <<"CRITICAL">>))
                   /\ Lookup(summary, <<"high">>) = JInt(Severity(alerts, <<"HIGH">>))
                   /\ Lookup(summary, <<"medium">>) = JInt(Severity(alerts, <<"MEDIUM">>))
                   /\ Lookup(summary, <<"low">>) = JInt(Severity(alerts, <<"LOW">>))
          /\ call[t].op = "list_applications" =>
               LET applications == Lookup(doc, <<"applications">>)
               IN  /\ applications[1] = "list"
                   /\ Lookup(doc, <<"total">>) = JInt(Len(applications[2]))
                   /\ \A k \in 1..Len(applications[2]) :
                        Lookup(applications[2][k], <<"environment">>)
                          = JStr(call[t].args.environment)

C28_Witness ==
  /\ Returned("c1") /\ call["c1"].branch = "mock"
  /\ call["c1"].op = "get_active_alerts"
  /\ call["c1"].args.environment = <<"Staging", " ", "\"", "blue", "\"">>
  /\ Len(Lookup(json_loads(call["c1"].result).val, <<"alerts">>)[2]) = 4

\* --------------------------------------------------------------------------
\* The figures of the API analytics
\* --------------------------------------------------------------------------
\* the sum of the "requests" of the first n endpoints of a list
RECURSIVE EndpointRequests(_, _)
EndpointRequests(endpoints, n) ==
  IF n = 0 THEN 0
  ELSE EndpointRequests(endpoints, n - 1) + Lookup(endpoints[2][n], <<"requests">>)[2]

\* C29: in both canned documents of get_api_analytics (api_id "12346" and
\* the default), requests.total equals requests.successful plus
\* requests.failed, and requests.failed equals the sum of errors.timeout,
\* errors.serverError and errors.clientError; in the "12346" document the
\* requests of the topEndpoints sum to requests.total.
C29_AnalyticsAddUp ==
  \A t \in Callers :
    (Returned(t) /\ call[t].branch = "mock" /\ call[t].op = "get_api_analytics")
    => LET metrics == Lookup(json_loads(call[t].result).val, <<"metrics">>)
           requests == Lookup(metrics, <<"requests">>)
           errors == Lookup(metrics, <<"errors">>)
           count(doc, key) == Lookup(doc, <<key>>)[2]
       IN  /\ \A key \in {"total", "successful", "failed"} :
                Lookup(requests, <<key>>)[1] = "int"
           /\ \A key \in {"timeout", "serverError", "clientError"} :
                Lookup(errors, <<key>>)[1] = "int"
           /\ count(requests, "total")
                = count(requests, "successful") + count(requests, "failed")
           /\ count(requests, "failed")
                = count(errors, "timeout") + count(errors, "serverError")
                  + count(errors, "clientError")
           /\ HasKey(metrics, <<"topEndpoints">>) = (call[t].args.api_id = <<"12346">>)
           /\ HasKey(metrics, <<"topEndpoints">>)
                => LET endpoints == Lookup(metrics, <<"topEndpoints">>)
                   IN  EndpointRequests(endpoints, Len(endpoints[2]))
                         = count(requests, "total")

C29_Witness ==
  /\ Returned("c1") /\ call["c1"].branch = "mock"
  /\ call["c1"].op = "get_api_analytics"
  /\ call["c1"].args.api_id = <<"12346">>
  /\ call["c1"].args.period = <<"fortnight">>
  /\ HasKey(Lookup(json_loads(call["c1"].result).val, <<"metrics">>), <<"topEndpoints">>)

=============================================================================
